---- MODULE Spec2Model ----
(***************************************************************************)
(* A model of the drift-measurement protocol of instinct8:                 *)
(*   - the evaluation harness (evaluation/harness.py): MockAgent, the      *)
(*     per-trial loop run_single_trial and the multi-trial loop            *)
(*     run_baseline_evaluation;                                            *)
(*   - the LLM-as-judge scorers of the MCP adapter                         *)
(*     (mcp_server/instinct8_mcp/strategy_adapter.py, sampling.py).        *)
(* The hosted LLM (the oracle) and the compression strategy are external:  *)
(* their replies are nondeterministic choices over small sets.             *)
(***************************************************************************)
EXTENDS Integers, Sequences, FiniteSets, TLC

VARIABLES
    \* ---- evaluation harness ----
    template,        \* the loaded template: its sequence of turns
    num_trials,      \* run_baseline_evaluation(num_trials)
    trial_id,        \* loop variable of run_baseline_evaluation
    trials,          \* the list of TrialResult built by run_baseline_evaluation
    pc,              \* position of the harness in its code
    turn_idx,        \* position of run_single_trial's loop in template["turns"]
    agent,           \* the MockAgent of the running trial
    strategy,        \* the strategy instance the agent holds
    collector,       \* the MetricsCollector of the running trial
    counter,         \* compression_point_counter
    locals,          \* tokens_before/after and the probe replies of the point
    calls,           \* history: the oracle/strategy/collector calls of the trial
    next_obj,        \* history: identity of the next object constructed
    \* ---- scorers of the MCP adapter ----
    s_op,            \* the scorer that was called
    s_args,          \* its arguments
    s_pc,            \* position of the scorer in its code
    s_idx,           \* measure_constraint_recall: index of the constraint being judged
    s_recalled,      \* measure_constraint_recall: recalled
    s_calls,         \* history: oracle (sampling) requests issued by the call
    s_replies,       \* history: how each oracle request of the call ended
    s_out,           \* how the call ended: the value returned or the exception raised
    \* ---- _deduplicate of the MCP adapter ----
    d_items,         \* the list _deduplicate is called with
    d_threshold,     \* its threshold
    d_once,          \* _deduplicate(items), once computed
    d_twice,         \* _deduplicate(_deduplicate(items)), once computed
    \* ---- the MCP server: session manager and tool calls ----
    m_session,       \* SessionManager._session: the SessionState object, or None
    m_sessions,      \* history: the number of sessions created so far
    m_tasks,         \* the tool calls being handled, one per handler task
    m_started,       \* history: the number of compress_context/measure_drift calls
    \* ---- Strategy H (SelectiveSalienceStrategy) ----
    k_original_goal, \* self.original_goal
    k_constraints,   \* self.constraints
    k_salience_set,  \* self.salience_set
    k_out,           \* what the last compress returned
    \* ---- the cross-trial aggregate ----
    a_summaries,     \* the summaries of the trials that have ended
    a_aggregate,     \* the aggregate summary, once computed
    \* ---- sample_json and sample_score (sampling.py) ----
    q_op,            \* the sampling wrapper that was called
    q_pc,            \* position of the wrapper in its code
    q_text,          \* the text the oracle returned
    q_requests,      \* history: sampling requests the call has sent
    q_out,           \* how the call ended
    \* ---- StrategyB_CodexCheckpoint._select_user_messages ----
    b_user_messages, \* the collected user messages, oldest first
    b_pos,           \* the number of messages the loop has taken, newest first
    b_selected,      \* selected
    b_remaining,     \* remaining_tokens
    b_pc,            \* position of _select_user_messages in its code
    \* ---- the command-line entry points run_eval.py and run_codex_cli_eval.py ----
    c_script,        \* the script that runs
    c_args,          \* its command-line arguments
    c_env,           \* what exists on the machine
    c_pc,            \* position of main in its code
    c_iter,          \* run_comparison and run_rigorous: strategies evaluated so far
    c_missing,       \* history: a check found a prerequisite missing
    c_reported,      \* history: an error message was printed
    c_evaluations,   \* history: evaluations that ran
    c_exit           \* the exit code of the process, once it has ended

hvars == <<template, num_trials, trial_id, trials, pc, turn_idx, agent,
           strategy, collector, counter, locals, calls, next_obj>>

svars == <<s_op, s_args, s_pc, s_idx, s_recalled, s_calls, s_replies, s_out>>

dvars == <<d_items, d_threshold, d_once, d_twice>>

mvars == <<m_session, m_sessions, m_tasks, m_started>>

kvars == <<k_original_goal, k_constraints, k_salience_set, k_out>>

avars == <<a_summaries, a_aggregate>>

qvars == <<q_op, q_pc, q_text, q_requests, q_out>>

bvars == <<b_user_messages, b_pos, b_selected, b_remaining, b_pc>>

cvars == <<c_script, c_args, c_env, c_pc, c_iter, c_missing, c_reported, c_evaluations, c_exit>>

vars == <<template, num_trials, trial_id, trials, pc, turn_idx, agent,
          strategy, collector, counter, locals, calls, next_obj,
          s_op, s_args, s_pc, s_idx, s_recalled, s_calls, s_replies, s_out,
          d_items, d_threshold, d_once, d_twice,
          m_session, m_sessions, m_tasks, m_started,
          k_original_goal, k_constraints, k_salience_set, k_out,
          a_summaries, a_aggregate,
          q_op, q_pc, q_text, q_requests, q_out,
          b_user_messages, b_pos, b_selected, b_remaining, b_pc,
          c_script, c_args, c_env, c_pc, c_iter, c_missing, c_reported, c_evaluations, c_exit>>

\* What an action of one component leaves alone: the other components.
hframe == <<svars, dvars, mvars, kvars, avars, qvars, bvars, cvars>>
sframe == <<hvars, dvars, mvars, kvars, avars, qvars, bvars, cvars>>
dframe == <<hvars, svars, mvars, kvars, avars, qvars, bvars, cvars>>
mframe == <<hvars, svars, dvars, kvars, avars, qvars, bvars, cvars>>
kframe == <<hvars, svars, dvars, mvars, avars, qvars, bvars, cvars>>
aframe == <<hvars, svars, dvars, mvars, kvars, qvars, bvars, cvars>>
qframe == <<hvars, svars, dvars, mvars, kvars, avars, bvars, cvars>>
bframe == <<hvars, svars, dvars, mvars, kvars, avars, qvars, cvars>>
cframe == <<hvars, svars, dvars, mvars, kvars, avars, qvars, bvars>>

(***************************************************************************)
(* Bounds                                                                  *)
(***************************************************************************)
MaxTurns == 3
MaxTrials == 2

None == "None"

(***************************************************************************)
(* Template data                                                           *)
(***************************************************************************)
OriginalGoal == "Synthesize the research on context compression"
HardConstraints == <<"Budget max 10K", "Cite only peer-reviewed work">>

\* Turn contents: one shorter than a token (4 characters), one longer.
ContentOfRole(role) ==
    IF role = "user" THEN "Please summarise the three papers within budget"
    ELSE "ok"

RoleAt(i) == IF i % 2 = 1 THEN "user" ELSE "assistant"

\* Strictly increasing turn ids (0-based or 1-based, with or without gaps).
TurnIdSeqs(n) ==
    {s \in [1..n -> 0..MaxTurns] : \A i \in 1..(n-1) : s[i] < s[i+1]}

TemplateTurns ==
    UNION {
        { [i \in 1..n |->
              [turn_id |-> ids[i],
               role |-> RoleAt(i),
               content |-> ContentOfRole(RoleAt(i)),
               is_compression_point |-> flags[i]]] :
          ids \in TurnIdSeqs(n), flags \in [1..n -> BOOLEAN] }
        : n \in 0..MaxTurns }

\* The strings a strategy's compress may return; the oracle's replies to a probe
\* (MockAgent.call returns the error text when the oracle call fails).
CompressedTexts == {"", "Goal and constraints kept; 3 turns summarised"}
AgentReplies == {"My goal is to synthesize the research", "(error: timeout)"}

GoalProbe == "goal_probe"
ConstraintProbe == "constraint_probe"
BehavioralProbe == "behavioral_test"

(***************************************************************************)
(* MockAgent                                                               *)
(***************************************************************************)
\* MockAgent.__init__: empty context, zero tokens.
MockAgentInit(strategy_id) ==
    [strategy |-> strategy_id, context |-> <<>>, total_tokens |-> 0]

\* MockAgent.add_turn
MockAgentAddTurn(a, turn) ==
    [a EXCEPT !.context = Append(@, turn),
              !.total_tokens = @ + (Len(turn.content) \div 4)]

\* The single synthetic turn that replaces the context.
SummaryTurn(compressed) ==
    [id |-> 0, role |-> "system", content |-> compressed,
     is_compression_point |-> FALSE]

\* Mutant: the summary turn is appended to the old context and counted on top of it.
MockAgentCompressAppends(a, compressed) ==
    [a EXCEPT !.total_tokens = @ + (Len(compressed) \div 4),
              !.context = Append(@, SummaryTurn(compressed))]

\* MockAgent.compress, after strategy.compress returned `compressed`.
MockAgentCompress(a, compressed) ==
    [a EXCEPT !.total_tokens = Len(compressed) \div 4,
              !.context = <<SummaryTurn(compressed)>>]

\* Mutant: the probe is kept in the context as a turn and counted.
MockAgentCallRemembersPrompt(a, prompt) ==
    [a EXCEPT !.context = Append(@, [id |-> 0, role |-> "user", content |-> prompt,
                                     is_compression_point |-> FALSE]),
              !.total_tokens = @ + (Len(prompt) \div 4)]

\* MockAgent.call(prompt): the agent after the call. The context is read by
\* _format_current_context into a local message list; no attribute is assigned.
MockAgentCall(a, prompt) == a

\* The turn dictionary run_single_trial hands to add_turn.
AgentTurn(turn) ==
    [id |-> turn.turn_id, role |-> turn.role, content |-> turn.content,
     is_compression_point |-> turn.is_compression_point]

(***************************************************************************)
(* Strategy and collector instances                                        *)
(***************************************************************************)
\* Mutant: one strategy object, constructed before the trial loop and reused.
StrategyBuiltOnce(id) ==
    IF trial_id = 1
    THEN [id |-> id, original_goal |-> None, constraints |-> <<>>, compressions |-> 0]
    ELSE strategy

\* StrategyB_CodexCheckpoint.__init__: a new object, nothing remembered.
NewStrategy(id) ==
    [id |-> id, original_goal |-> None, constraints |-> <<>>, compressions |-> 0]

\* CompressionStrategy.initialize
StrategyInitialize(s, goal, constraints) ==
    [s EXCEPT !.original_goal = goal, !.constraints = constraints]

\* MetricsCollector(original_goal, constraints): a new object, no records.
NewCollector(id) ==
    [id |-> id, records |-> <<>>]

\* MetricsCollector.collect_at_compression_point: one record per call.
CollectAtCompressionPoint(c, rec) ==
    [c EXCEPT !.records = Append(@, rec)]

(***************************************************************************)
(* run_single_trial: the order of the steps at a compression point         *)
(***************************************************************************)
\* Mutant: compress is called before the constraint probe of the "before" pair.
AfterStepCompressEarly(p) ==
    CASE p = "goal_before"        -> "compress"
      [] p = "compress"           -> "constraints_before"
      [] p = "constraints_before" -> "goal_after"
      [] p = "goal_after"         -> "constraints_after"
      [] p = "constraints_after"  -> "behavioral_after"
      [] p = "behavioral_after"   -> "collect"
      [] OTHER                    -> "turn"

AfterStep(p) ==
    CASE p = "goal_before"        -> "constraints_before"
      [] p = "constraints_before" -> "compress"
      [] p = "compress"           -> "goal_after"
      [] p = "goal_after"         -> "constraints_after"
      [] p = "constraints_after"  -> "behavioral_after"
      [] p = "behavioral_after"   -> "collect"
      [] OTHER                    -> "turn"

\* Mutant: the counter counts every turn.
NextCounterEveryTurn(c, turn) == c + 1

\* compression_point_counter after a turn was added.
NextCounter(c, turn) ==
    IF turn.is_compression_point THEN c + 1 ELSE c

NoLocals ==
    [tokens_before |-> 0, tokens_after |-> 0, goal_before |-> None,
     constraints_before |-> None, compressed |-> None, goal_after |-> None,
     constraints_after |-> None, behavioral_after |-> None]

Turns == template

\* An entry of the call history: the operation, the prompt of a probe, the turn it
\* belongs to (the trigger point of compress), whether that turn is flagged, the
\* ordinal handed to collect, and whether the call returned (or raised).
LogEntry(op, prompt, turn_id, flagged, ordinal, returned) ==
    [op |-> op, arg |-> prompt, turn_id |-> turn_id, flagged |-> flagged,
     ordinal |-> ordinal, returned |-> returned]
CurTurn == Turns[turn_idx]

HInit ==
    /\ template \in TemplateTurns
    /\ num_trials \in 1..MaxTrials
    /\ trial_id = 1
    /\ trials = <<>>
    /\ pc = "eval_loop"
    /\ turn_idx = 0
    /\ agent = MockAgentInit(0)
    /\ strategy = NewStrategy(0)
    /\ collector = NewCollector(0)
    /\ counter = 0
    /\ locals = NoLocals
    /\ calls = <<>>
    /\ next_obj = 1

\* run_baseline_evaluation, one iteration of the trial loop up to the first turn of
\* run_single_trial: a new strategy, a MockAgent (which initializes the strategy), a
\* new MetricsCollector.
StartTrial ==
    /\ pc = "eval_loop"
    /\ trial_id <= num_trials
    /\ strategy' = StrategyInitialize(NewStrategy(next_obj), OriginalGoal, HardConstraints)
    /\ agent' = MockAgentInit(strategy'.id)
    /\ collector' = NewCollector(next_obj + 1)
    /\ next_obj' = next_obj + 2
    /\ counter' = 0
    /\ turn_idx' = 1
    /\ locals' = NoLocals
    /\ calls' = <<LogEntry("initialize", "", -1, FALSE, 0, TRUE)>>
    /\ pc' = "turn"
    /\ UNCHANGED <<template, num_trials, trial_id, trials>>
    /\ UNCHANGED hframe

\* One iteration of `for turn in turns` up to the first probe: add_turn, the test of
\* is_compression_point, the counter, tokens_before.
AddTurn ==
    /\ pc = "turn"
    /\ turn_idx <= Len(Turns)
    /\ agent' = MockAgentAddTurn(agent, AgentTurn(CurTurn))
    /\ counter' = NextCounter(counter, CurTurn)
    /\ calls' = Append(calls, LogEntry("add_turn", "", CurTurn.turn_id,
                                       CurTurn.is_compression_point, 0, TRUE))
    /\ IF CurTurn.is_compression_point
       THEN /\ locals' = [NoLocals EXCEPT !.tokens_before = agent'.total_tokens]
            /\ pc' = "goal_before"
            /\ UNCHANGED turn_idx
       ELSE /\ locals' = NoLocals
            /\ pc' = "turn"
            /\ turn_idx' = turn_idx + 1
    /\ UNCHANGED <<template, num_trials, trial_id, trials, strategy, collector, next_obj>>
    /\ UNCHANGED hframe

\* agent.call(prompt): one oracle request; the reply, or the error text when the
\* request fails. The agent itself is not changed.
Probe(at, prompt, field) ==
    /\ \E reply \in AgentReplies :
          locals' = [locals EXCEPT ![field] = reply]
    /\ agent' = MockAgentCall(agent, prompt)
    /\ calls' = Append(calls, LogEntry("call", prompt, CurTurn.turn_id, TRUE, 0, TRUE))
    /\ pc' = AfterStep(at)
    /\ UNCHANGED <<template, num_trials, trial_id, trials, turn_idx,
                   strategy, collector, counter, next_obj>>
    /\ UNCHANGED hframe

ProbeGoalBefore ==
    /\ pc = "goal_before"
    /\ Probe("goal_before", GoalProbe, "goal_before")
ProbeConstraintsBefore ==
    /\ pc = "constraints_before"
    /\ Probe("constraints_before", ConstraintProbe, "constraints_before")
ProbeGoalAfter ==
    /\ pc = "goal_after"
    /\ Probe("goal_after", GoalProbe, "goal_after")
ProbeConstraintsAfter ==
    /\ pc = "constraints_after"
    /\ Probe("constraints_after", ConstraintProbe, "constraints_after")
ProbeBehavioralAfter ==
    /\ pc = "behavioral_after"
    /\ Probe("behavioral_after", BehavioralProbe, "behavioral_after")

\* agent.compress(turn_id) where strategy.compress returns a string, then
\* tokens_after = agent.get_token_count().
Compress ==
    /\ pc = "compress"
    /\ \E compressed \in CompressedTexts :
          /\ agent' = MockAgentCompress(agent, compressed)
          /\ locals' = [locals EXCEPT !.compressed = compressed,
                                      !.tokens_after = agent'.total_tokens]
    /\ strategy' = [strategy EXCEPT !.compressions = @ + 1]
    /\ calls' = Append(calls, LogEntry("compress", "", CurTurn.turn_id, TRUE, 0, TRUE))
    /\ pc' = AfterStep("compress")
    /\ UNCHANGED <<template, num_trials, trial_id, trials, turn_idx, collector,
                   counter, next_obj>>
    /\ UNCHANGED hframe

\* agent.compress(turn_id) where strategy.compress raises: nothing catches it in
\* MockAgent.compress, run_single_trial or run_baseline_evaluation.
CompressRaises ==
    /\ pc = "compress"
    /\ calls' = Append(calls, LogEntry("compress", "", CurTurn.turn_id, TRUE, 0, FALSE))
    /\ pc' = "raised"
    /\ UNCHANGED <<template, num_trials, trial_id, trials, turn_idx, agent, strategy,
                   collector, counter, locals, next_obj>>
    /\ UNCHANGED hframe

\* collector.collect_at_compression_point(...) and the end of the loop body.
Collect ==
    /\ pc = "collect"
    /\ collector' = CollectAtCompressionPoint(collector,
            [compression_point_id |-> counter,
             turn_id |-> CurTurn.turn_id,
             tokens_before |-> locals.tokens_before,
             tokens_after |-> locals.tokens_after])
    /\ calls' = Append(calls, LogEntry("collect", "", CurTurn.turn_id, TRUE, counter, TRUE))
    /\ locals' = NoLocals
    /\ turn_idx' = turn_idx + 1
    /\ pc' = AfterStep("collect")
    /\ UNCHANGED <<template, num_trials, trial_id, trials, agent, strategy, counter,
                   next_obj>>
    /\ UNCHANGED hframe

\* MetricsCollector.get_results()["compression_points"]: one entry per record, in
\* the order collected (of each entry the model keeps the two identifying fields).
GetResults(c) ==
    [k \in 1..Len(c.records) |->
        [compression_point_id |-> c.records[k].compression_point_id,
         turn_id |-> c.records[k].turn_id]]

\* The TrialResult of run_single_trial; strategy and collector are history fields
\* naming the objects the trial ran with.
TrialResult(id) ==
    [trial_id |-> id,
     compression_points |-> GetResults(collector),
     strategy |-> strategy.id,
     collector |-> collector.id]

\* The end of run_single_trial (collector.get_results, TrialResult) and
\* trials.append(result) in run_baseline_evaluation.
FinishTrial ==
    /\ pc = "turn"
    /\ turn_idx > Len(Turns)
    /\ trials' = Append(trials, TrialResult(trial_id))
    /\ trial_id' = trial_id + 1
    /\ calls' = Append(calls, LogEntry("name", "", -1, FALSE, 0, TRUE))
    /\ pc' = "eval_loop"
    /\ UNCHANGED <<template, num_trials, turn_idx, agent, strategy, collector, counter,
                   locals, next_obj>>
    /\ UNCHANGED hframe

\* The trial loop of run_baseline_evaluation is over: aggregate, save, return.
FinishEvaluation ==
    /\ pc = "eval_loop"
    /\ trial_id > num_trials
    /\ pc' = "done"
    /\ UNCHANGED <<template, num_trials, trial_id, trials, turn_idx, agent, strategy,
                   collector, counter, locals, calls, next_obj>>
    /\ UNCHANGED hframe

HNext ==
    \/ StartTrial
    \/ AddTurn
    \/ ProbeGoalBefore
    \/ ProbeConstraintsBefore
    \/ Compress
    \/ CompressRaises
    \/ ProbeGoalAfter
    \/ ProbeConstraintsAfter
    \/ ProbeBehavioralAfter
    \/ Collect
    \/ FinishTrial
    \/ FinishEvaluation

(***************************************************************************)
(* Texts of the scorer layer.  A text is a sequence of characters, so that *)
(* strip, lower, the substring test and the parsing of a number are        *)
(* computed on it as the code computes them.                               *)
(***************************************************************************)
Digits == {"0", "1", "2", "3", "4", "5", "6", "7", "8", "9"}

DigitVal(c) ==
    CASE c = "0" -> 0 [] c = "1" -> 1 [] c = "2" -> 2 [] c = "3" -> 3
      [] c = "4" -> 4 [] c = "5" -> 5 [] c = "6" -> 6 [] c = "7" -> 7
      [] c = "8" -> 8 [] c = "9" -> 9

IsSpace(c) == c \in {" ", "\n", "\t"}

\* str.lower on one character
LowerChar(c) ==
    CASE c = "A" -> "a" [] c = "B" -> "b" [] c = "C" -> "c" [] c = "D" -> "d"
      [] c = "E" -> "e" [] c = "F" -> "f" [] c = "G" -> "g" [] c = "H" -> "h"
      [] c = "I" -> "i" [] c = "J" -> "j" [] c = "K" -> "k" [] c = "L" -> "l"
      [] c = "M" -> "m" [] c = "N" -> "n" [] c = "O" -> "o" [] c = "P" -> "p"
      [] c = "Q" -> "q" [] c = "R" -> "r" [] c = "S" -> "s" [] c = "T" -> "t"
      [] c = "U" -> "u" [] c = "V" -> "v" [] c = "W" -> "w" [] c = "X" -> "x"
      [] c = "Y" -> "y" [] c = "Z" -> "z" [] OTHER -> c

\* str.lower
Lower(t) == [i \in 1..Len(t) |-> LowerChar(t[i])]

\* str.strip: whitespace removed at both ends
RECURSIVE LStrip(_)
LStrip(t) ==
    IF t # <<>> /\ IsSpace(Head(t)) THEN LStrip(Tail(t)) ELSE t

RECURSIVE RStrip(_)
RStrip(t) ==
    IF t # <<>> /\ IsSpace(t[Len(t)]) THEN RStrip(SubSeq(t, 1, Len(t) - 1)) ELSE t

Strip(t) == RStrip(LStrip(t))

\* `sub in t`
Contains(t, sub) ==
    \E i \in 1..(Len(t) - Len(sub) + 1) : SubSeq(t, i, i + Len(sub) - 1) = sub

\* The index of the first character of t that is in set, 0 when there is none.
FirstIndex(t, set) ==
    IF \E i \in 1..Len(t) : t[i] \in set
    THEN CHOOSE i \in 1..Len(t) : t[i] \in set /\ \A j \in 1..(i-1) : t[j] \notin set
    ELSE 0

AllDigits(t) == \A i \in 1..Len(t) : t[i] \in Digits

RECURSIVE DigitsToInt(_)
DigitsToInt(t) ==
    IF t = <<>> THEN 0
    ELSE DigitsToInt(SubSeq(t, 1, Len(t) - 1)) * 10 + DigitVal(t[Len(t)])

RECURSIVE Pow10(_)
Pow10(k) == IF k <= 0 THEN 1 ELSE 10 * Pow10(k - 1)

(***************************************************************************)
(* Python floats: a finite value is the fraction n/d (d > 0); the others   *)
(* are inf, -inf and nan.                                                  *)
(***************************************************************************)
Fin(n, d) == [k |-> "fin", n |-> n, d |-> d]
PosInf == [k |-> "inf"]
NegInf == [k |-> "-inf"]
NaN == [k |-> "nan"]

\* a < b on floats; every comparison with nan is false
FLess(a, b) ==
    CASE a.k = "nan" \/ b.k = "nan" -> FALSE
      [] a.k = "-inf" -> b.k # "-inf"
      [] a.k = "inf"  -> FALSE
      [] b.k = "inf"  -> TRUE
      [] b.k = "-inf" -> FALSE
      [] OTHER        -> a.n * b.d < b.n * a.d

\* a == b on floats
FEq(a, b) ==
    CASE a.k = "nan" \/ b.k = "nan" -> FALSE
      [] a.k = "fin" /\ b.k = "fin" -> a.n * b.d = b.n * a.d
      [] OTHER -> a.k = b.k

\* The builtins min(a, b) and max(a, b): the first argument unless the second is
\* strictly smaller (larger).
PyMin(a, b) == IF FLess(b, a) THEN b ELSE a
PyMax(a, b) == IF FLess(a, b) THEN b ELSE a

Negate(f) ==
    CASE f.k = "fin" -> Fin(-f.n, f.d)
      [] f.k = "inf" -> NegInf
      [] f.k = "-inf" -> PosInf
      [] OTHER -> f

NoValue == [ok |-> FALSE]
Value(f) == [ok |-> TRUE, val |-> f]

\* digits [ "." digits ] or "." digits, as float() and the regex's group read it
DecimalOf(t, exp) ==
    LET dot == FirstIndex(t, {"."})
        ip == IF dot = 0 THEN t ELSE SubSeq(t, 1, dot - 1)
        fp == IF dot = 0 THEN <<>> ELSE SubSeq(t, dot + 1, Len(t))
        mant == DigitsToInt(ip \o fp)
    IN  IF ~(AllDigits(ip) /\ AllDigits(fp) /\ Len(ip) + Len(fp) > 0) THEN NoValue
        ELSE IF mant = 0 THEN Value(Fin(0, 1))
        \* beyond the largest double (about 1.8e308) the value is inf
        ELSE IF Len(ip) + exp > 309 THEN Value(PosInf)
        ELSE Value(Fin(mant * Pow10(exp), Pow10(Len(fp)) * Pow10(-exp)))

\* float(t) of a stripped text: [sign] (inf | infinity | nan | decimal [e [sign] digits])
PyFloat(t) ==
    LET signed == t # <<>> /\ t[1] \in {"+", "-"}
        body == IF signed THEN Tail(t) ELSE t
        low == Lower(body)
        e == FirstIndex(low, {"e"})
        mant == IF e = 0 THEN body ELSE SubSeq(body, 1, e - 1)
        ex == IF e = 0 THEN <<>> ELSE SubSeq(body, e + 1, Len(body))
        exsigned == ex # <<>> /\ ex[1] \in {"+", "-"}
        exdigits == IF exsigned THEN Tail(ex) ELSE ex
        exok == e = 0 \/ (exdigits # <<>> /\ AllDigits(exdigits))
        exval == IF e = 0 THEN 0
                 ELSE IF exsigned /\ ex[1] = "-" THEN -DigitsToInt(exdigits)
                 ELSE DigitsToInt(exdigits)
        unsigned ==
            IF low \in {<<"i","n","f">>, <<"i","n","f","i","n","i","t","y">>}
            THEN Value(PosInf)
            ELSE IF low = <<"n","a","n">> THEN Value(NaN)
            ELSE IF ~exok THEN NoValue
            ELSE DecimalOf(mant, exval)
    IN  IF unsigned.ok /\ signed /\ t[1] = "-"
        THEN Value(Negate(unsigned.val))
        ELSE unsigned

\* re.search(r"(\d+\.?\d*)", t): the first run of digits, a dot after it if there
\* is one, and the digits after the dot.
RECURSIVE DigitRunEnd(_, _)
DigitRunEnd(t, i) ==
    IF i + 1 <= Len(t) /\ t[i + 1] \in Digits THEN DigitRunEnd(t, i + 1) ELSE i

FirstNumber(t) ==
    LET a == FirstIndex(t, Digits)
        b == DigitRunEnd(t, a)
        c == IF b + 1 <= Len(t) /\ t[b + 1] = "." THEN DigitRunEnd(t, b + 1) ELSE b
    IN  IF a = 0 THEN NoValue ELSE DecimalOf(SubSeq(t, a, c), 0)

\* sample_score on the text the oracle returned: the float, or no value when it
\* raises ValueError.
SampleScore(text) ==
    LET t == Strip(text)
    IN  IF PyFloat(t).ok THEN PyFloat(t) ELSE FirstNumber(t)

\* round(x) of a finite float: to the nearest integer, ties to the even one
PyRound(f) ==
    LET q == f.n \div f.d
        r == f.n - q * f.d
    IN  IF 2 * r > f.d THEN q + 1
        ELSE IF 2 * r < f.d THEN q
        ELSE IF q % 2 = 0 THEN q ELSE q + 1

\* max(0.0, min(1.0, score))
ClampCoherence(score) == PyMax(Fin(0, 1), PyMin(Fin(1, 1), score))

\* max(1, min(5, int(round(score)))) of a finite score
ClampAlignment(score) ==
    LET i == PyRound(score)
        m == IF i < 5 THEN i ELSE 5
    IN  IF m > 1 THEN m ELSE 1

\* Mutant: the comparison keeps the letter case.
SameGoalCaseSensitive(original_goal, stated_goal) ==
    Strip(original_goal) = Strip(stated_goal)

\* The test `original_goal.strip().lower() == stated_goal.strip().lower()`
SameGoal(original_goal, stated_goal) ==
    Lower(Strip(original_goal)) = Lower(Strip(stated_goal))

(***************************************************************************)
(* The inputs of the scorers and the oracle's replies                      *)
(***************************************************************************)
MaxConstraints == 2

Goals ==
    { <<>>,
      <<" ">>,
      <<"D", "o", " ", "X">>,
      <<"d", "o", " ", "x">>,
      <<" ", "D", "O", " ", "X", " ">>,
      <<"G", "o", " ", "Y">> }

ConstraintPool == <<"Budget max 10K", "Must use Y", "No PII", "Ship by May">>
ConstraintLists == {SubSeq(ConstraintPool, 1, n) : n \in 0..MaxConstraints}
Statements == {"", "Stay within the 10K budget"}
Responses == {"", "We should keep to the budget"}

\* What the oracle may answer when asked for a score
ScoreReplies ==
    { <<"0", ".", "8", "5">>,
      <<"1", ".", "5">>,
      <<"9">>,
      <<"0">>,
      <<"-", "3">>,
      <<" ", "4", "\n">>,
      <<"2", ".", "5">>,
      <<"3", ".", "5">>,
      <<"4", "/", "5">>,
      <<"S", "c", "o", "r", "e", ":", " ", "0", ".", "9">>,
      <<"u", "n", "s", "u", "r", "e">>,
      <<>>,
      <<"1", "e", "9", "9", "9">>,
      <<"n", "a", "n">> }

\* What the oracle may answer to the yes/no question of the constraint judge
JudgeReplies ==
    { <<"y", "e", "s">>,
      <<"Y", "e", "s", ".">>,
      <<"n", "o">>,
      <<"N", "O">>,
      <<>> }

Yes == <<"y", "e", "s">>

ScorerCalls ==
    { [op |-> "goal_coherence", original_goal |-> g, stated_goal |-> h,
       constraints |-> <<>>, statement |-> "", response |-> ""] :
      g \in Goals, h \in Goals }
    \cup
    { [op |-> "constraint_recall", original_goal |-> <<>>, stated_goal |-> <<>>,
       constraints |-> c, statement |-> st, response |-> ""] :
      c \in ConstraintLists, st \in Statements }
    \cup
    { [op |-> "behavioral_alignment", original_goal |-> <<"D", "o", " ", "X">>,
       stated_goal |-> <<>>, constraints |-> c, statement |-> "", response |-> r] :
      c \in ConstraintLists, r \in Responses }

NoOutcome == [kind |-> "none"]
Return(v) == [kind |-> "return", value |-> v]
Raise(e) == [kind |-> "raise", exc |-> e]

SInit ==
    /\ s_args \in ScorerCalls
    /\ s_op = s_args.op
    /\ s_pc = "entry"
    /\ s_idx = 0
    /\ s_recalled = 0
    /\ s_calls = 0
    /\ s_replies = <<>>
    /\ s_out = NoOutcome

(***************************************************************************)
(* measure_goal_coherence                                                  *)
(***************************************************************************)
\* Mutant: the exact match is tested before the empty goals.
GoalCoherenceShortcutMatchFirst(original_goal, stated_goal) ==
    IF Lower(Strip(original_goal)) = Lower(Strip(stated_goal)) THEN Value(Fin(1, 1))
    ELSE IF original_goal = <<>> \/ stated_goal = <<>> THEN Value(Fin(0, 1))
    ELSE NoValue

\* The value measure_goal_coherence returns without asking the oracle, if any.
GoalCoherenceShortcut(original_goal, stated_goal) ==
    IF original_goal = <<>> \/ stated_goal = <<>> THEN Value(Fin(0, 1))
    ELSE IF SameGoal(original_goal, stated_goal) THEN Value(Fin(1, 1))
    ELSE NoValue

\* What measure_goal_coherence does with the oracle's text.
GoalCoherenceOutcome(text) ==
    IF SampleScore(text).ok
    THEN Return(ClampCoherence(SampleScore(text).val))
    ELSE Raise("ValueError")

\* What a failed sampling request does to measure_goal_coherence: no handler, the
\* exception leaves the scorer.
GoalCoherenceOnFailure == Raise("TransportError")

\* measure_goal_coherence up to the sampling request
MeasureGoalCoherence ==
    /\ s_op = "goal_coherence"
    /\ s_pc = "entry"
    /\ LET short == GoalCoherenceShortcut(s_args.original_goal, s_args.stated_goal)
       IN  IF short.ok
           THEN /\ s_out' = Return(short.val)
                /\ s_pc' = "done"
                /\ UNCHANGED s_calls
           ELSE /\ s_calls' = s_calls + 1
                /\ s_pc' = "sampling"
                /\ UNCHANGED s_out
    /\ UNCHANGED <<s_op, s_args, s_idx, s_recalled, s_replies>>
    /\ UNCHANGED sframe

\* the oracle answers; sample_score parses; the clamp
GoalCoherenceReply ==
    /\ s_op = "goal_coherence"
    /\ s_pc = "sampling"
    /\ \E text \in ScoreReplies :
          /\ s_out' = GoalCoherenceOutcome(text)
          /\ s_replies' = Append(s_replies, [ok |-> TRUE, answer |-> text])
    /\ s_pc' = "done"
    /\ UNCHANGED <<s_op, s_args, s_idx, s_recalled, s_calls>>
    /\ UNCHANGED sframe

\* session.create_message raises
GoalCoherenceOracleFails ==
    /\ s_op = "goal_coherence"
    /\ s_pc = "sampling"
    /\ s_out' = GoalCoherenceOnFailure
    /\ s_replies' = Append(s_replies, [ok |-> FALSE])
    /\ s_pc' = "done"
    /\ UNCHANGED <<s_op, s_args, s_idx, s_recalled, s_calls>>
    /\ UNCHANGED sframe

(***************************************************************************)
(* measure_behavioral_alignment                                            *)
(***************************************************************************)
\* What measure_behavioral_alignment does with the oracle's text: int() of a
\* float that is not finite raises.
AlignmentOutcome(text) ==
    LET score == SampleScore(text)
    IN  IF ~score.ok THEN Raise("ValueError")
        ELSE IF score.val.k = "nan" THEN Raise("ValueError")
        ELSE IF score.val.k \in {"inf", "-inf"} THEN Raise("OverflowError")
        ELSE Return(ClampAlignment(score.val))

AlignmentOnFailure == Raise("TransportError")

MeasureBehavioralAlignment ==
    /\ s_op = "behavioral_alignment"
    /\ s_pc = "entry"
    /\ IF s_args.response = ""
       THEN /\ s_out' = Return(1)
            /\ s_pc' = "done"
            /\ UNCHANGED s_calls
       ELSE /\ s_calls' = s_calls + 1
            /\ s_pc' = "sampling"
            /\ UNCHANGED s_out
    /\ UNCHANGED <<s_op, s_args, s_idx, s_recalled, s_replies>>
    /\ UNCHANGED sframe

AlignmentReply ==
    /\ s_op = "behavioral_alignment"
    /\ s_pc = "sampling"
    /\ \E text \in ScoreReplies :
          /\ s_out' = AlignmentOutcome(text)
          /\ s_replies' = Append(s_replies, [ok |-> TRUE, answer |-> text])
    /\ s_pc' = "done"
    /\ UNCHANGED <<s_op, s_args, s_idx, s_recalled, s_calls>>
    /\ UNCHANGED sframe

AlignmentOracleFails ==
    /\ s_op = "behavioral_alignment"
    /\ s_pc = "sampling"
    /\ s_out' = AlignmentOnFailure
    /\ s_replies' = Append(s_replies, [ok |-> FALSE])
    /\ s_pc' = "done"
    /\ UNCHANGED <<s_op, s_args, s_idx, s_recalled, s_calls>>
    /\ UNCHANGED sframe

(***************************************************************************)
(* measure_constraint_recall                                               *)
(***************************************************************************)
\* Mutant: the empty statement is tested before the empty constraint list.
ConstraintRecallShortcutStatementFirst(known_constraints, stated_constraints) ==
    IF stated_constraints = "" THEN Value(Fin(0, 1))
    ELSE IF known_constraints = <<>> THEN Value(Fin(1, 1))
    ELSE NoValue

\* Mutant: no short-circuit for the empty statement.
ConstraintRecallShortcutNoStatementTest(known_constraints, stated_constraints) ==
    IF known_constraints = <<>> THEN Value(Fin(1, 1))
    ELSE NoValue

\* The value measure_constraint_recall returns without asking the oracle, if any.
ConstraintRecallShortcut(known_constraints, stated_constraints) ==
    IF known_constraints = <<>> THEN Value(Fin(1, 1))
    ELSE IF stated_constraints = "" THEN Value(Fin(0, 1))
    ELSE NoValue

\* Mutant: the reply is searched without lowering it.
JudgedYesCaseSensitive(answer) == Contains(answer, Yes)

\* `"yes" in answer.lower()`
JudgedYes(answer) == Contains(Lower(answer), Yes)

\* The loop of measure_constraint_recall after the judge call of constraint s_idx
\* ended with `recalled` recalled: the next judge call, or the return.
RecallStep(recalled) ==
    /\ s_recalled' = recalled
    /\ IF s_idx < Len(s_args.constraints)
       THEN /\ s_idx' = s_idx + 1
            /\ s_calls' = s_calls + 1
            /\ s_pc' = "sampling"
            /\ UNCHANGED s_out
       ELSE /\ s_out' = Return(Fin(recalled, Len(s_args.constraints)))
            /\ s_pc' = "done"
            /\ UNCHANGED <<s_idx, s_calls>>

MeasureConstraintRecall ==
    /\ s_op = "constraint_recall"
    /\ s_pc = "entry"
    /\ LET short == ConstraintRecallShortcut(s_args.constraints, s_args.statement)
       IN  IF short.ok
           THEN /\ s_out' = Return(short.val)
                /\ s_pc' = "done"
                /\ UNCHANGED <<s_idx, s_calls, s_recalled>>
           ELSE /\ s_idx' = 1
                /\ s_recalled' = 0
                /\ s_calls' = s_calls + 1
                /\ s_pc' = "sampling"
                /\ UNCHANGED s_out
    /\ UNCHANGED <<s_op, s_args, s_replies>>
    /\ UNCHANGED sframe

\* the judge answers for constraint s_idx
ConstraintJudgeReply ==
    /\ s_op = "constraint_recall"
    /\ s_pc = "sampling"
    /\ \E answer \in JudgeReplies :
          /\ RecallStep(IF JudgedYes(answer) THEN s_recalled + 1 ELSE s_recalled)
          /\ s_replies' = Append(s_replies, [ok |-> TRUE, answer |-> answer])
    /\ UNCHANGED <<s_op, s_args>>
    /\ UNCHANGED sframe

\* the judge call raises: `except Exception: pass`
ConstraintJudgeFails ==
    /\ s_op = "constraint_recall"
    /\ s_pc = "sampling"
    /\ RecallStep(s_recalled)
    /\ s_replies' = Append(s_replies, [ok |-> FALSE])
    /\ UNCHANGED <<s_op, s_args>>
    /\ UNCHANGED sframe

SNext ==
    \/ MeasureGoalCoherence
    \/ GoalCoherenceReply
    \/ GoalCoherenceOracleFails
    \/ MeasureBehavioralAlignment
    \/ AlignmentReply
    \/ AlignmentOracleFails
    \/ MeasureConstraintRecall
    \/ ConstraintJudgeReply
    \/ ConstraintJudgeFails

(***************************************************************************)
(* _deduplicate (strategy_adapter.py) and the similarity it uses,          *)
(* difflib.SequenceMatcher(None, a, b).ratio()                             *)
(***************************************************************************)
MaxItems == 3

\* The strings a salience list may hold
ItemPool ==
    { <<"a", "b", "c">>,
      <<"a", "b", "c", "d">>,
      <<"a", "b", "c", "d", "e">>,
      <<"A", "B", "C">>,
      <<"x", "y", "z">> }

RECURSIVE ListsUpTo(_, _)
ListsUpTo(pool, n) ==
    IF n = 0 THEN {<<>>}
    ELSE LET shorter == ListsUpTo(pool, n - 1)
         IN  shorter \cup {Append(l, x) : l \in {m \in shorter : Len(m) = n - 1},
                                          x \in pool}

ItemLists == ListsUpTo(ItemPool, MaxItems)

DefaultThreshold == Fin(85, 100)
Thresholds == {DefaultThreshold, Fin(1, 2)}

\* The length of the common run of a and b that starts at a[i] and b[j] and stays
\* within a[..ahi] and b[..bhi].
RECURSIVE CommonLen(_, _, _, _, _, _)
CommonLen(a, i, b, j, ahi, bhi) ==
    IF i > ahi \/ j > bhi THEN 0
    ELSE IF a[i] # b[j] THEN 0
    ELSE 1 + CommonLen(a, i + 1, b, j + 1, ahi, bhi)

\* SequenceMatcher.find_longest_match without junk: the longest block common to
\* a[alo..ahi] and b[blo..bhi]; of the longest, the one starting earliest in a, and
\* of those the one starting earliest in b.
FindLongestMatch(a, b, alo, ahi, blo, bhi) ==
    LET starts == (alo..ahi) \X (blo..bhi)
        size == [p \in starts |-> CommonLen(a, p[1], b, p[2], ahi, bhi)]
        best == IF starts = {} THEN 0
                ELSE CHOOSE k \in {size[p] : p \in starts} :
                        \A p \in starts : size[p] <= k
    IN  IF best = 0 THEN [i |-> alo, j |-> blo, size |-> 0]
        ELSE LET longest == {p \in starts : size[p] = best}
                 i == CHOOSE x \in {p[1] : p \in longest} :
                         \A p \in longest : x <= p[1]
                 j == CHOOSE y \in {p[2] : p \in longest} :
                         /\ <<i, y>> \in longest
                         /\ \A p \in longest : p[1] = i => y <= p[2]
             IN  [i |-> i, j |-> j, size |-> best]

\* SequenceMatcher.get_matching_blocks: the total size of the matching blocks, the
\* longest block first and then the blocks to its left and to its right.
RECURSIVE MatchedChars(_, _, _, _, _, _)
MatchedChars(a, b, alo, ahi, blo, bhi) ==
    IF alo > ahi \/ blo > bhi THEN 0
    ELSE LET m == FindLongestMatch(a, b, alo, ahi, blo, bhi)
         IN  IF m.size = 0 THEN 0
             ELSE m.size
                  + MatchedChars(a, b, alo, m.i - 1, blo, m.j - 1)
                  + MatchedChars(a, b, m.i + m.size, ahi, m.j + m.size, bhi)

\* SequenceMatcher(None, a, b).ratio(): 2.0 * matches / (len(a) + len(b)), and 1.0
\* for two empty strings.
Ratio(a, b) ==
    IF Len(a) + Len(b) = 0 THEN Fin(1, 1)
    ELSE Fin(2 * MatchedChars(a, b, 1, Len(a), 1, Len(b)), Len(a) + Len(b))

\* `ratio >= threshold` for items[i] and items[j], compared in lower case
Similar(x, y, threshold) == ~FLess(Ratio(Lower(x), Lower(y)), threshold)

\* Mutant: the longer of the two is kept.
LoserKeepsLonger(items, i, j) ==
    IF Len(items[i]) > Len(items[j]) THEN j ELSE i

\* Which of items[i] and items[j] goes to to_remove: i if it is longer, else j.
Loser(items, i, j) ==
    IF Len(items[i]) > Len(items[j]) THEN i ELSE j

\* Mutant: the inner loop ends at the first removal.
RECURSIVE DedupInnerBreaks(_, _, _, _, _)
DedupInnerBreaks(items, threshold, i, j, to_remove) ==
    IF j > Len(items) THEN to_remove
    ELSE IF j \in to_remove
         THEN DedupInnerBreaks(items, threshold, i, j + 1, to_remove)
    ELSE IF Similar(items[i], items[j], threshold)
         THEN to_remove \cup {Loser(items, i, j)}
    ELSE DedupInnerBreaks(items, threshold, i, j + 1, to_remove)

\* The inner loop `for j in range(i + 1, len(items))` from j on; it goes on after i
\* itself was added to to_remove.
RECURSIVE DedupInner(_, _, _, _, _)
DedupInner(items, threshold, i, j, to_remove) ==
    IF j > Len(items) THEN to_remove
    ELSE IF j \in to_remove
         THEN DedupInner(items, threshold, i, j + 1, to_remove)
    ELSE IF Similar(items[i], items[j], threshold)
         THEN DedupInner(items, threshold, i, j + 1,
                         to_remove \cup {Loser(items, i, j)})
    ELSE DedupInner(items, threshold, i, j + 1, to_remove)

\* The outer loop `for i in range(len(items))` from i on
RECURSIVE DedupOuter(_, _, _, _)
DedupOuter(items, threshold, i, to_remove) ==
    IF i > Len(items) THEN to_remove
    ELSE IF i \in to_remove THEN DedupOuter(items, threshold, i + 1, to_remove)
    ELSE DedupOuter(items, threshold, i + 1,
                    DedupInner(items, threshold, i, i + 1, to_remove))

\* The items whose index is not in to_remove, in their order
RECURSIVE Kept(_, _, _)
Kept(items, to_remove, idx) ==
    IF idx > Len(items) THEN <<>>
    ELSE IF idx \in to_remove THEN Kept(items, to_remove, idx + 1)
    ELSE <<items[idx]>> \o Kept(items, to_remove, idx + 1)

\* The indices _deduplicate removes
ToRemove(items, threshold) ==
    IF Len(items) <= 1 THEN {} ELSE DedupOuter(items, threshold, 1, {})

\* _deduplicate(items, threshold)
Deduplicate(items, threshold) == Kept(items, ToRemove(items, threshold), 1)

DInit ==
    /\ d_items \in ItemLists
    /\ d_threshold \in Thresholds
    /\ d_once = NoValue
    /\ d_twice = NoValue

\* merged = _deduplicate(items)
DeduplicateOnce ==
    /\ ~d_once.ok
    /\ d_once' = Value(Deduplicate(d_items, d_threshold))
    /\ UNCHANGED <<d_items, d_threshold, d_twice>>
    /\ UNCHANGED dframe

\* _deduplicate(merged)
DeduplicateAgain ==
    /\ d_once.ok
    /\ ~d_twice.ok
    /\ d_twice' = Value(Deduplicate(d_once.val, d_threshold))
    /\ UNCHANGED <<d_items, d_threshold, d_once>>
    /\ UNCHANGED dframe

DNext ==
    \/ DeduplicateOnce
    \/ DeduplicateAgain

(***************************************************************************)
(* The MCP server: SessionManager (session_manager.py), the adapter        *)
(* (strategy_adapter.py) and the tools compress_context and measure_drift  *)
(* (tools.py).  A text is a sequence of fragments: the characters of a     *)
(* value, or the literal pieces of the template it was formatted into.     *)
(***************************************************************************)
MaxHandlers == 2
MaxSessions == 2
MaxDecisions == 1
MaxToolCalls == 2

\* len(text)
RECURSIVE CharLenIn(_, _, _)
CharLenIn(text, lo, hi) ==
    IF lo > hi THEN 0
    ELSE IF lo = hi THEN Len(text[lo])
    ELSE LET mid == (lo + hi) \div 2
         IN  CharLenIn(text, lo, mid) + CharLenIn(text, mid + 1, hi)

CharLen(text) == CharLenIn(text, 1, Len(text))

\* sep.join(parts)
RECURSIVE Join(_, _)
Join(sep, parts) ==
    IF parts = <<>> THEN <<>>
    ELSE IF Len(parts) = 1 THEN parts[1]
    ELSE parts[1] \o <<sep>> \o Join(sep, Tail(parts))

\* text starts with prefix
StartsWith(text, prefix) ==
    /\ Len(prefix) <= Len(text)
    /\ SubSeq(text, 1, Len(prefix)) = prefix

\* What datetime.now().isoformat() may return
ClockReadings == {"2026-01-01T09:00:00.000001"}

DefaultRationale == <<"Goal evolution during task execution">>

\* Decision(decision, rationale)
Decision(decision, rationale) == [decision |-> decision, rationale |-> rationale]

\* ProtectedCore.render
Render(core) ==
    LET decision_lines ==
            [k \in 1..Len(core.key_decisions) |->
                <<"  - ">> \o core.key_decisions[k].decision
                \o <<" (Rationale: ">> \o core.key_decisions[k].rationale \o <<")">>]
        decisions_str ==
            IF core.key_decisions # <<>> THEN Join("\n", decision_lines)
            ELSE <<"  (none yet)">>
        constraint_lines ==
            [k \in 1..Len(core.hard_constraints) |->
                <<"  - ">> \o core.hard_constraints[k]]
    IN  <<"PROTECTED CORE (AUTHORITATIVE - Never forget these):\n",
          "================================================\n",
          "Original Goal: ">> \o core.original_goal \o <<"\n",
          "Current Goal: ">> \o core.current_goal \o <<"\n",
          "\n",
          "Hard Constraints (MUST FOLLOW):\n">>
        \o Join("\n", constraint_lines)
        \o <<"\n\n",
             "Key Decisions Made:\n">>
        \o decisions_str \o <<"\n",
             "\n",
             "Last Updated: ", core.timestamp_updated, "\n",
             "================================================\n",
             "\n",
             "INSTRUCTION: Always prioritize the CURRENT GOAL and HARD CONSTRAINTS above all else.\n",
             "If there's any ambiguity, refer back to this Protected Core as the source of truth.">>

\* ProtectedCore(original_goal=goal, current_goal=goal, hard_constraints=list(constraints))
NewProtectedCore(goal, constraints, now) ==
    [original_goal |-> goal,
     current_goal |-> goal,
     hard_constraints |-> constraints,
     key_decisions |-> <<>>,
     timestamp_updated |-> now]

\* SessionState(protected_core=core)
NewSessionState(core) ==
    [protected_core |-> core,
     salience_set |-> <<>>,
     compression_count |-> 0,
     total_tokens_saved |-> 0]

CONSTRAINT_KEYWORDS ==
    << <<"m", "u", "s", "t">>,
       <<"c", "a", "n", "n", "o", "t">>,
       <<"r", "e", "q", "u", "i", "r", "e", "d">>,
       <<"m", "u", "s", "t", " ", "n", "o", "t">>,
       <<"m", "u", "s", "t", "n", "'", "t">>,
       <<"s", "h", "o", "u", "l", "d", " ", "n", "o", "t">>,
       <<"s", "h", "o", "u", "l", "d", "n", "'", "t">>,
       <<"f", "o", "r", "b", "i", "d", "d", "e", "n">>,
       <<"p", "r", "o", "h", "i", "b", "i", "t", "e", "d">> >>

DECISION_KEYWORDS ==
    << <<"c", "h", "o", "s", "e">>,
       <<"d", "e", "c", "i", "d", "e", "d">>,
       <<"s", "e", "l", "e", "c", "t", "e", "d">>,
       <<"w", "i", "l", "l", " ", "u", "s", "e">>,
       <<"u", "s", "i", "n", "g">>,
       <<"g", "o", "i", "n", "g", " ", "w", "i", "t", "h">>,
       <<"p", "i", "c", "k", "e", "d">>,
       <<"o", "p", "t", "e", "d">> >>

\* any(kw in lower for kw in keywords)
HasKeyword(item, keywords) ==
    \E k \in 1..Len(keywords) : Contains(Lower(item), keywords[k])

\* _prioritize: constraints first, then decisions, then facts
Prioritize(items) ==
    LET IsConstraint(x) == HasKeyword(x, CONSTRAINT_KEYWORDS)
        IsDecision(x) == ~IsConstraint(x) /\ HasKeyword(x, DECISION_KEYWORDS)
        IsFact(x) == ~IsConstraint(x) /\ ~HasKeyword(x, DECISION_KEYWORDS)
    IN  SelectSeq(items, IsConstraint) \o SelectSeq(items, IsDecision)
        \o SelectSeq(items, IsFact)

\* The decimal digits of a small natural number, as str(n) writes them
RECURSIVE StrOfNat(_)
StrOfNat(n) ==
    IF n < 10 THEN <<CHOOSE d \in Digits : DigitVal(d) = n>>
    ELSE StrOfNat(n \div 10) \o <<CHOOSE d \in Digits : DigitVal(d) = n % 10>>

\* f"Turn {turn_id} ({role}): {content}" with the defaults of turn.get
TurnLine(turn) ==
    <<"Turn ">> \o (IF "id" \in DOMAIN turn THEN turn.id ELSE <<"?">>)
    \o <<" (">> \o (IF "role" \in DOMAIN turn THEN turn.role ELSE <<"unknown">>)
    \o <<"): ">> \o (IF "content" \in DOMAIN turn THEN turn.content ELSE <<>>)

\* Mutant: the salient items come before the Protected Core.
BuildCompressedContextCoreLast(state, background_summary, recent_turns) ==
    LET prioritized == Prioritize(state.salience_set)
        salient ==
            IF prioritized # <<>>
            THEN << <<"=== SALIENT INFORMATION ===">> >>
                 \o [k \in 1..Len(prioritized) |->
                        StrOfNat(k) \o <<". ">> \o prioritized[k]]
            ELSE <<>>
    IN  Join("\n", salient \o << Render(state.protected_core) >>)

\* build_compressed_context: PROTECTED CORE + SALIENT ITEMS + BACKGROUND + RECENT TURNS
BuildCompressedContext(state, background_summary, recent_turns) ==
    LET prioritized == Prioritize(state.salience_set)
        core == << Render(state.protected_core) >>
        salient ==
            IF prioritized # <<>>
            THEN << <<>>, <<"=== SALIENT INFORMATION ===">> >>
                 \o [k \in 1..Len(prioritized) |->
                        StrOfNat(k) \o <<". ">> \o prioritized[k]]
            ELSE <<>>
        background ==
            IF background_summary # <<>>
            THEN << <<>>, <<"=== BACKGROUND SUMMARY ===">>, background_summary >>
            ELSE <<>>
        recent ==
            IF recent_turns # <<>>
            THEN << <<>>, <<"=== RECENT TURNS ===">> >>
                 \o [k \in 1..Len(recent_turns) |-> TurnLine(recent_turns[k])]
            ELSE <<>>
    IN  Join("\n", core \o salient \o background \o recent)

\* _fallback_extract
FallbackExtract(state) ==
    (IF state.protected_core.current_goal # <<>>
     THEN << <<"O", "r", "i", "g", "i", "n", "a", "l", " ", "G", "o", "a", "l", ":", " ">> \o state.protected_core.current_goal >>
     ELSE <<>>)
    \o [k \in 1..Len(state.protected_core.hard_constraints) |->
           <<"C", "o", "n", "s", "t", "r", "a", "i", "n", "t", ":", " ">> \o state.protected_core.hard_constraints[k]]

\* ---- the inputs of the tools and the oracle's replies ----
Handlers == 1..MaxHandlers

\* The arguments initialize_session may be called with
SessionArguments ==
    { [goal |-> <<"D", "o", " ", "X">>, constraints |-> << <<"N", "o", " ", "Z">> >>],
      [goal |-> <<"G", "o", " ", "Y">>, constraints |-> <<>>] }

NewGoals == { <<"G", "o", " ", "Y">> }
Rationales == { <<>> }
Decisions == { Decision(<<"Use Q">>, <<"cheaper">>) }

\* str * n
RECURSIVE Repeat(_, _)
Repeat(str, n) == IF n = 0 THEN "" ELSE str \o Repeat(str, n - 1)

LongContent ==
    << Repeat("We compared the options in detail and went through every cost. ", 16) >>

ConversationShort ==
    << [id |-> <<"1">>, role |-> <<"user">>, content |-> <<"Plan the launch.">>],
       [role |-> <<"assistant">>, content |-> <<"Noted.">>] >>

ConversationLong ==
    << [id |-> <<"1">>, role |-> <<"user">>, content |-> LongContent],
       [id |-> <<"2">>, role |-> <<"assistant">>, content |-> <<"Understood.">>],
       [role |-> <<"user">>, content |-> <<"What is next?">>],
       [id |-> <<"4">>, role |-> <<"assistant">>, content |-> <<"The budget.">>] >>

\* The arguments compress_context may be called with
CompressArguments ==
    { [conversation |-> ConversationShort, keep_recent_turns |-> 3],
      [conversation |-> ConversationLong, keep_recent_turns |-> 3] }

\* An element of the JSON list the oracle returned: a string or something else
Str(t) == [str |-> TRUE, s |-> t]
NotStr == [str |-> FALSE]

\* How the sampling request of extract_salience may end: the value json.loads gave,
\* text that is no JSON, or a failed request.
ExtractSalienceReplies ==
    { [kind |-> "dict", has_key |-> TRUE, is_list |-> TRUE,
       items |-> << Str(<<"a", "b", "c", "d">>), Str(<<" ">>), NotStr >>],
      [kind |-> "dict", has_key |-> TRUE, is_list |-> TRUE,
       items |-> << Str(<<"x", "a", "b", "c", "d">>), Str(<<"a", "b", "c", "d", "y">>) >>],
      [kind |-> "dict", has_key |-> TRUE, is_list |-> FALSE, items |-> <<>>],
      [kind |-> "dict", has_key |-> FALSE, is_list |-> FALSE, items |-> <<>>],
      [kind |-> "not_dict"],
      [kind |-> "non_json"],
      [kind |-> "transport_error"] }

\* How the sampling request of compress_background may end
CompressBackgroundReplies ==
    { [ok |-> TRUE, text |-> <<"Earlier turns settled the plan.">>],
      [ok |-> TRUE, text |-> <<>>],
      [ok |-> FALSE] }

\* SessionManager._session is None
NoSession == [none |-> TRUE]

\* `state`, the SessionState object a suspended call holds: the manager's current
\* object (an alias), or an object the manager has dropped since, which nothing
\* changes any more.
Current == [alias |-> TRUE]
Dropped(session) == [alias |-> FALSE, object |-> session]

IdleTask ==
    [op |-> "none", pc |-> "idle", args |-> [none |-> TRUE], state |-> Current,
     loc |-> [none |-> TRUE], calls |-> 0, out |-> NoOutcome]

MInit ==
    /\ m_session = NoSession
    /\ m_sessions = 0
    /\ m_tasks = [h \in Handlers |-> IdleTask]
    /\ m_started = 0

\* The session manager has a session.
HasSession == m_session # NoSession

\* SessionManager.require_session without a session:
\* raise ValueError("No active session. Call initialize_session first.")
NoActiveSessionSwallowed == Return([none |-> TRUE])

NoActiveSession == Raise("ValueError")

\* The object `state` of a task
StateOf(task) == IF task.state.alias THEN m_session ELSE task.state.object

\* The tasks once the manager has dropped its session object: the suspended calls
\* that hold it keep the object as it is.
Detach(tasks) ==
    [h \in Handlers |->
        IF tasks[h].pc \notin {"idle", "done"} /\ tasks[h].state.alias
        THEN [tasks[h] EXCEPT !.state = Dropped(m_session)]
        ELSE tasks[h]]

\* No handler is between its last await and its return: until it has returned no
\* other code runs on the event loop.
NoneReturning == \A h \in Handlers : m_tasks[h].pc # "done"

\* A tool call may start on handler h: the task slot is free (the lowest free one
\* is taken) and the number of calls is within the bound.
CanStart(h) ==
    /\ NoneReturning
    /\ m_started < MaxToolCalls
    /\ m_tasks[h].pc = "idle"
    /\ \A g \in Handlers : g < h => m_tasks[g].pc # "idle"

\* ---- SessionManager ----
\* SessionManager.initialize, called by the tool initialize_session
InitializeSession ==
    /\ NoneReturning
    /\ m_sessions < MaxSessions
    /\ \E given \in SessionArguments, now \in ClockReadings :
          m_session' =
             [id |-> m_sessions + 1, given |-> given]
             @@ NewSessionState(NewProtectedCore(given.goal, given.constraints, now))
    /\ m_sessions' = m_sessions + 1
    /\ m_tasks' = Detach(m_tasks)
    /\ UNCHANGED m_started
    /\ UNCHANGED mframe

\* Mutant: update_goal overwrites the original goal too.
UpdateGoalCoreOverwritesOriginal(core, new_goal, rationale, now) ==
    [core EXCEPT
        !.key_decisions = Append(@,
            Decision(<<"Goal updated to: ">> \o new_goal,
                     IF rationale # <<>> THEN rationale ELSE DefaultRationale)),
        !.original_goal = new_goal,
        !.current_goal = new_goal,
        !.timestamp_updated = now]

\* What SessionManager.update_goal does to the protected core
UpdateGoalCore(core, new_goal, rationale, now) ==
    [core EXCEPT
        !.key_decisions = Append(@,
            Decision(<<"Goal updated to: ">> \o new_goal,
                     IF rationale # <<>> THEN rationale ELSE DefaultRationale)),
        !.current_goal = new_goal,
        !.timestamp_updated = now]

\* SessionManager.update_goal on an active session
UpdateGoal ==
    /\ NoneReturning
    /\ HasSession
    /\ Len(m_session.protected_core.key_decisions) < MaxDecisions
    /\ \E new_goal \in NewGoals, rationale \in Rationales, now \in ClockReadings :
          m_session' = [m_session EXCEPT !.protected_core =
                           UpdateGoalCore(@, new_goal, rationale, now)]
    /\ UNCHANGED <<m_sessions, m_tasks, m_started>>
    /\ UNCHANGED mframe

\* SessionManager.add_decision on an active session
AddDecision ==
    /\ NoneReturning
    /\ HasSession
    /\ Len(m_session.protected_core.key_decisions) < MaxDecisions
    /\ \E d \in Decisions :
          m_session' = [m_session EXCEPT !.protected_core.key_decisions = Append(@, d)]
    /\ UNCHANGED <<m_sessions, m_tasks, m_started>>
    /\ UNCHANGED mframe

\* SessionManager.reset
Reset ==
    /\ NoneReturning
    /\ HasSession
    /\ m_session' = NoSession
    /\ m_tasks' = Detach(m_tasks)
    /\ UNCHANGED <<m_sessions, m_started>>
    /\ UNCHANGED mframe

\* SessionManager.record_compression on session object s
RecordCompression(s, tokens_saved) ==
    [s EXCEPT !.compression_count = @ + 1,
              !.total_tokens_saved = @ + tokens_saved]

\* ---- compress_context ----
\* sum(len(str(t.get("content", ""))) for t in conversation)
RECURSIVE OriginalChars(_)
OriginalChars(conversation) ==
    IF conversation = <<>> THEN 0
    ELSE (IF "content" \in DOMAIN Head(conversation)
          THEN CharLen(Head(conversation).content) ELSE 0)
         + OriginalChars(Tail(conversation))

\* max(a, b) on integers
MaxInt(a, b) == IF a >= b THEN a ELSE b

\* trigger_point = max(0, len(conversation) - keep_recent_turns)
TriggerPoint(conversation, keep_recent_turns) ==
    MaxInt(0, Len(conversation) - keep_recent_turns)

\* conversation[:n] and conversation[n:] for n >= 0
Upto(conversation, n) ==
    SubSeq(conversation, 1, IF n < Len(conversation) THEN n ELSE Len(conversation))
From(conversation, n) == SubSeq(conversation, n + 1, Len(conversation))

\* The tool starts: without a session it raises; with nothing to compress it
\* returns the assembled context; else extract_salience sends its request.
CompressContext ==
    \E h \in Handlers, args \in CompressArguments :
      /\ CanStart(h)
      /\ LET conversation == args.conversation
             trigger_point == TriggerPoint(conversation, args.keep_recent_turns)
             to_compress == Upto(conversation, trigger_point)
             recent_turns == From(conversation, trigger_point)
             task == [IdleTask EXCEPT !.op = "compress_context", !.args = args]
         IN  m_tasks' = [m_tasks EXCEPT ![h] =
               IF ~HasSession
               THEN [task EXCEPT !.pc = "done", !.out = NoActiveSession]
               ELSE IF to_compress = <<>>
               THEN [task EXCEPT
                       !.pc = "done",
                       !.out = Return(
                          [compressed_context |->
                              BuildCompressedContext(m_session, <<>>, recent_turns),
                           core |-> m_session.protected_core,
                           stats |->
                              [original_turns |-> Len(conversation),
                               salience_items |-> Len(m_session.salience_set),
                               sampling_calls |-> 0]])]
               ELSE [task EXCEPT
                       !.pc = "extract_salience",
                       !.calls = 1,
                       !.loc = [to_compress |-> to_compress,
                                recent_turns |-> recent_turns]]]
      /\ m_started' = m_started + 1
      /\ UNCHANGED <<m_session, m_sessions>>
      /\ UNCHANGED mframe

\* new_items of extract_salience for a reply that did not end the call
NewItems(reply, state) ==
    IF reply.kind = "non_json" THEN FallbackExtract(state)
    ELSE IF ~reply.has_key \/ ~reply.is_list THEN <<>>
    ELSE LET IsNonBlankStr(x) == x.str /\ Strip(x.s) # <<>>
             kept == SelectSeq(reply.items, IsNonBlankStr)
         IN  [k \in 1..Len(kept) |-> kept[k].s]

\* The sampling request of extract_salience ends; the new items are merged with the
\* set of `state`, stored in the manager's session, and compress_background sends
\* its request.
ExtractSalienceReturns ==
    \E h \in Handlers, reply \in ExtractSalienceReplies :
      /\ NoneReturning
      /\ m_tasks[h].pc = "extract_salience"
      /\ IF reply.kind \in {"not_dict", "transport_error"}
         THEN /\ m_tasks' = [m_tasks EXCEPT ![h].pc = "done",
                    ![h].out = Raise(IF reply.kind = "not_dict"
                                     THEN "AttributeError" ELSE "TransportError")]
              /\ UNCHANGED m_session
         ELSE IF ~HasSession
         THEN /\ m_tasks' = [m_tasks EXCEPT ![h].pc = "done",
                                            ![h].out = NoActiveSession]
              /\ UNCHANGED m_session
         ELSE \E merged \in
                    {LET state == StateOf(m_tasks[h])
                         combined == state.salience_set \o NewItems(reply, state)
                     IN  Deduplicate(combined, DefaultThreshold)} :
                  /\ m_session' = [m_session EXCEPT !.salience_set = merged]
                  /\ m_tasks' = [m_tasks EXCEPT
                        ![h].pc = "compress_background",
                        ![h].state = Current,
                        ![h].calls = @ + 1,
                        ![h].loc = [salience |-> merged] @@ @]
      /\ UNCHANGED <<m_sessions, m_started>>
      /\ UNCHANGED mframe

\* f"Previous conversation context ({len(context)} turns)."
BackgroundFallback(context) ==
    <<"Previous conversation context (">> \o StrOfNat(Len(context)) \o <<" turns).">>

\* The sampling request of compress_background ends; the context is assembled from
\* the manager's session, the compression recorded and the result returned.
CompressBackgroundReturns ==
    \E h \in Handlers, reply \in CompressBackgroundReplies :
      /\ NoneReturning
      /\ m_tasks[h].pc = "compress_background"
      /\ LET task == m_tasks[h]
             background == IF reply.ok THEN reply.text
                           ELSE BackgroundFallback(task.loc.to_compress)
         IN  IF ~HasSession
             THEN /\ m_tasks' = [m_tasks EXCEPT ![h].pc = "done",
                                                ![h].out = NoActiveSession]
                  /\ UNCHANGED m_session
             ELSE \E compressed \in {BuildCompressedContext(
                                       m_session, background, task.loc.recent_turns)} :
                  LET original_chars == OriginalChars(task.args.conversation)
                      compressed_chars == CharLen(compressed)
                      tokens_saved ==
                          MaxInt(0, (original_chars - compressed_chars) \div 4)
                      recorded == RecordCompression(m_session, tokens_saved)
                  IN  /\ m_session' = recorded
                      /\ m_tasks' = [m_tasks EXCEPT
                            ![h].pc = "done",
                            ![h].out = Return(
                               [compressed_context |-> compressed,
                                core |-> m_session.protected_core,
                                stats |->
                                   [original_turns |-> Len(task.args.conversation),
                                    compressed_length |-> compressed_chars,
                                    salience_items |-> Len(task.loc.salience),
                                    estimated_tokens_saved |-> tokens_saved,
                                    compression_count |-> recorded.compression_count,
                                    sampling_calls |-> 2]])]
      /\ UNCHANGED <<m_sessions, m_started>>
      /\ UNCHANGED mframe

\* ---- measure_drift ----
\* The arguments measure_drift may be called with
DriftArguments ==
    { [stated_goal |-> <<"D", "o", " ", "X">>,
       stated_constraints |-> <<>>,
       agent_response |-> <<>>],
      [stated_goal |-> <<"G", "o", " ", "Y">>,
       stated_constraints |-> <<"We will avoid Z.">>,
       agent_response |-> <<"I will do X within the limits.">>] }

\* What the oracle may answer when measure_drift asks for a score
DriftScoreReplies == { <<"0", ".", "5">>, <<"u", "n", "s", "u", "r", "e">> }

\* What the oracle may answer to the constraint judge of measure_drift
DriftJudgeReplies == { <<"y", "e", "s">>, <<"n", "o">> }

\* _interpret_coherence
InterpretCoherence(score) ==
    IF ~FLess(score, Fin(9, 10)) THEN "Excellent"
    ELSE IF ~FLess(score, Fin(7, 10)) THEN "Good"
    ELSE IF ~FLess(score, Fin(5, 10)) THEN "Warning"
    ELSE IF ~FLess(score, Fin(3, 10)) THEN "Critical"
    ELSE "Severe"

\* _interpret_alignment
InterpretAlignment(score) ==
    CASE score = 5 -> "Perfectly aligned"
      [] score = 4 -> "Mostly aligned, minor deviations"
      [] score = 3 -> "Ambiguous alignment"
      [] score = 2 -> "Some drift detected"
      [] score = 1 -> "Complete drift"
      [] OTHER -> "Unknown"

\* The end of measure_drift: the overall assessment and the session statistics,
\* read from the session object the call started with.
DriftFinish(task, result) ==
    LET state == StateOf(task)
    IN  [task EXCEPT
           !.pc = "done",
           !.out = Return(
              [drift_detected |-> FLess(result.goal_coherence, Fin(7, 10)),
               session_stats |->
                  [compression_count |-> state.compression_count,
                   total_tokens_saved |-> state.total_tokens_saved,
                   salience_items |-> Len(state.salience_set)]] @@ result)]

\* `if agent_response:` of measure_drift: the alignment request, or the end
DriftAlignmentOrFinish(task, result) ==
    IF task.args.agent_response # <<>>
    THEN [task EXCEPT !.pc = "behavioral_alignment",
                      !.calls = @ + 1,
                      !.loc = [@ EXCEPT !.result = result]]
    ELSE DriftFinish(task, result)

\* measure_drift once the goal coherence is known
DriftAfterCoherence(task, goal_coherence) ==
    LET result == [goal_coherence |-> goal_coherence,
                   goal_coherence_interpretation |-> InterpretCoherence(goal_coherence),
                   sampling_calls |-> 1]
    IN  IF task.args.stated_constraints # <<>> /\ task.loc.constraints # <<>>
        THEN [task EXCEPT !.pc = "constraint_recall",
                          !.calls = @ + 1,
                          !.loc = [@ EXCEPT !.result = result,
                                            !.idx = 1,
                                            !.recalled = 0]]
        ELSE DriftAlignmentOrFinish(task, result)

\* measure_drift once the constraint recall is known
DriftAfterRecall(task, recalled) ==
    LET n == Len(task.loc.constraints)
        result == [constraint_recall |-> Fin(recalled, n),
                   constraints_remembered |-> [recalled |-> recalled, of |-> n]]
                  @@ [task.loc.result EXCEPT !.sampling_calls = @ + n]
    IN  DriftAlignmentOrFinish(task, result)

\* The tool starts: without a session it raises; else it reads the original goal
\* and the constraints of the session and measures the goal coherence.
MeasureDrift ==
    \E h \in Handlers, args \in DriftArguments :
      /\ CanStart(h)
      /\ LET stated_goal == args.stated_goal
             task == [IdleTask EXCEPT !.op = "measure_drift", !.args = args]
         IN  m_tasks' = [m_tasks EXCEPT ![h] =
               IF ~HasSession
               THEN [task EXCEPT !.pc = "done", !.out = NoActiveSession]
               ELSE LET original_goal == m_session.protected_core.original_goal
                        constraints == m_session.protected_core.hard_constraints
                        started == [task EXCEPT
                                      !.loc = [original_goal |-> original_goal,
                                               given |-> m_session.given,
                                               constraints |-> constraints,
                                               scored |-> <<original_goal, stated_goal>>,
                                               result |-> [none |-> TRUE],
                                               idx |-> 0,
                                               recalled |-> 0]]
                        short == GoalCoherenceShortcut(original_goal, stated_goal)
                    IN  IF short.ok THEN DriftAfterCoherence(started, short.val)
                        ELSE [started EXCEPT !.pc = "goal_coherence", !.calls = 1]]
      /\ m_started' = m_started + 1
      /\ UNCHANGED <<m_session, m_sessions>>
      /\ UNCHANGED mframe

\* The sampling request of measure_goal_coherence ends.
DriftGoalCoherenceReturns ==
    \E h \in Handlers :
      /\ NoneReturning
      /\ m_tasks[h].pc = "goal_coherence"
      /\ \/ \E text \in DriftScoreReplies :
              LET outcome == GoalCoherenceOutcome(text)
              IN  m_tasks' = [m_tasks EXCEPT ![h] =
                     IF outcome.kind = "return"
                     THEN DriftAfterCoherence(@, outcome.value)
                     ELSE [@ EXCEPT !.pc = "done", !.out = outcome]]
         \/ m_tasks' = [m_tasks EXCEPT ![h].pc = "done",
                                       ![h].out = GoalCoherenceOnFailure]
      /\ UNCHANGED <<m_session, m_sessions, m_started>>
      /\ UNCHANGED mframe

\* The loop of measure_constraint_recall after a judge call of measure_drift ended
DriftRecallStep(task, recalled) ==
    IF task.loc.idx < Len(task.loc.constraints)
    THEN [task EXCEPT !.calls = @ + 1,
                      !.loc = [@ EXCEPT !.idx = @ + 1, !.recalled = recalled]]
    ELSE DriftAfterRecall(task, recalled)

\* A judge request of measure_constraint_recall ends, with an answer or failing.
DriftConstraintJudgeReturns ==
    \E h \in Handlers :
      /\ NoneReturning
      /\ m_tasks[h].pc = "constraint_recall"
      /\ \/ \E answer \in DriftJudgeReplies :
              m_tasks' = [m_tasks EXCEPT ![h] =
                 DriftRecallStep(@, IF JudgedYes(answer)
                                    THEN @.loc.recalled + 1 ELSE @.loc.recalled)]
         \/ m_tasks' = [m_tasks EXCEPT ![h] = DriftRecallStep(@, @.loc.recalled)]
      /\ UNCHANGED <<m_session, m_sessions, m_started>>
      /\ UNCHANGED mframe

\* The sampling request of measure_behavioral_alignment ends.
DriftAlignmentReturns ==
    \E h \in Handlers :
      /\ NoneReturning
      /\ m_tasks[h].pc = "behavioral_alignment"
      /\ \/ \E text \in DriftScoreReplies :
              LET outcome == AlignmentOutcome(text)
              IN  m_tasks' = [m_tasks EXCEPT ![h] =
                     IF outcome.kind = "return"
                     THEN DriftFinish(@,
                             [behavioral_alignment |-> outcome.value,
                              behavioral_interpretation |->
                                 InterpretAlignment(outcome.value)]
                             @@ [@.loc.result EXCEPT !.sampling_calls = @ + 1])
                     ELSE [@ EXCEPT !.pc = "done", !.out = outcome]]
         \/ m_tasks' = [m_tasks EXCEPT ![h].pc = "done",
                                       ![h].out = AlignmentOnFailure]
      /\ UNCHANGED <<m_session, m_sessions, m_started>>
      /\ UNCHANGED mframe

\* The handler's result has been sent to the client; the task ends.
Respond ==
    \E h \in Handlers :
      /\ m_tasks[h].pc = "done"
      /\ m_tasks' = [m_tasks EXCEPT ![h] = IdleTask]
      /\ UNCHANGED <<m_session, m_sessions, m_started>>
      /\ UNCHANGED mframe

MNext ==
    \/ InitializeSession
    \/ UpdateGoal
    \/ AddDecision
    \/ Reset
    \/ CompressContext
    \/ ExtractSalienceReturns
    \/ CompressBackgroundReturns
    \/ MeasureDrift
    \/ DriftGoalCoherenceReturns
    \/ DriftConstraintJudgeReturns
    \/ DriftAlignmentReturns
    \/ Respond

(***************************************************************************)
(* Strategy H: SelectiveSalienceStrategy                                   *)
(***************************************************************************)
MaxSalience == 4

\* An element of the JSON list that is no string: truthy (a number, a dict)
\* or falsy (null, 0)
NonStr(truthy) == [str |-> FALSE, truthy |-> truthy]

\* How the extraction request of Strategy H may end: the value json.loads gave,
\* text that is no JSON, or a failed request.
StrategyHReplies ==
    { [kind |-> "dict", has_key |-> TRUE, is_list |-> TRUE,
       items |-> << Str(<<"a", "b", "c", "d">>) >>],
      [kind |-> "dict", has_key |-> TRUE, is_list |-> TRUE,
       items |-> << Str(<<"x", "a", "b", "c", "d">>), Str(<<"a", "b", "c", "d", "y">>) >>],
      [kind |-> "dict", has_key |-> TRUE, is_list |-> TRUE,
       items |-> << Str(<<"a", "b", "c", "d">>), Str(<<" ">>), Str(<<>>), NonStr(FALSE) >>],
      [kind |-> "dict", has_key |-> TRUE, is_list |-> TRUE,
       items |-> << Str(<<"a", "b", "c", "d">>), NonStr(TRUE) >>],
      [kind |-> "dict", has_key |-> TRUE, is_list |-> FALSE, items |-> <<>>],
      [kind |-> "dict", has_key |-> FALSE, is_list |-> FALSE, items |-> <<>>],
      [kind |-> "not_dict"],
      [kind |-> "non_json"],
      [kind |-> "transport_error"] }

\* The contexts and trigger points compress may be called with
StrategyHContexts == { ConversationShort }
StrategyHTriggerPoints == { 0, 2 }

\* seq[a:b] for 0 <= a
Slice(seq, a, b) == SubSeq(seq, a + 1, IF b < Len(seq) THEN b ELSE Len(seq))

\* _extract_salient_information: the items kept by `item and item.strip()`, or
\* the empty list when anything raised (a truthy element without strip included).
ExtractSalientInformation(reply) ==
    IF reply.kind # "dict" THEN <<>>
    ELSE IF ~reply.has_key \/ ~reply.is_list THEN <<>>
    ELSE IF \E k \in 1..Len(reply.items) :
               ~reply.items[k].str /\ reply.items[k].truthy
    THEN <<>>
    ELSE LET IsKept(x) == x.str /\ x.s # <<>> /\ Strip(x.s) # <<>>
             kept == SelectSeq(reply.items, IsKept)
         IN  [k \in 1..Len(kept) |-> kept[k].s]

\* _compress_background of Strategy H: the stripped reply, or the fallback
StrategyHBackground(reply, context) ==
    IF reply.ok THEN Strip(reply.text) ELSE BackgroundFallback(context)

\* _build_context: SALIENT INFORMATION, BACKGROUND SUMMARY, RECENT TURNS
BuildContext(salience_set, background_summary, recent_turns) ==
    LET salient ==
            IF salience_set # <<>>
            THEN << <<"=== SALIENT INFORMATION ===">> >>
                 \o [k \in 1..Len(salience_set) |->
                        StrOfNat(k) \o <<". ">> \o salience_set[k]]
                 \o << <<>> >>
            ELSE <<>>
        background ==
            IF background_summary # <<>>
            THEN << <<"=== BACKGROUND SUMMARY ===">>, background_summary, <<>> >>
            ELSE <<>>
        recent ==
            IF recent_turns # <<>>
            THEN << <<"=== RECENT TURNS ===">> >>
                 \o [k \in 1..Len(recent_turns) |-> TurnLine(recent_turns[k])]
                 \o << <<>> >>
            ELSE <<>>
    IN  Join("\n", salient \o background \o recent)

\* SelectiveSalienceStrategy.__init__
KInit ==
    /\ k_original_goal = NoValue
    /\ k_constraints = <<>>
    /\ k_salience_set = <<>>
    /\ k_out = NoValue

\* SelectiveSalienceStrategy.initialize
StrategyHInitialize ==
    /\ \E given \in SessionArguments :
          /\ k_original_goal' = Value(given.goal)
          /\ k_constraints' = given.constraints
    /\ k_salience_set' = <<>>
    /\ UNCHANGED k_out
    /\ UNCHANGED kframe

\* SelectiveSalienceStrategy.update_goal
StrategyHUpdateGoal ==
    /\ \E new_goal \in NewGoals : k_original_goal' = Value(new_goal)
    /\ UNCHANGED <<k_constraints, k_salience_set, k_out>>
    /\ UNCHANGED kframe

\* Step 2 of compress: self.salience_set.extend(new_salience)
MergeSalience(salience_set, new_salience) == salience_set \o new_salience

\* SelectiveSalienceStrategy.compress
StrategyHCompress ==
    \E context \in StrategyHContexts, trigger_point \in StrategyHTriggerPoints,
       reply \in StrategyHReplies, summary \in CompressBackgroundReplies :
      LET to_compress == Slice(context, 0, trigger_point)
      IN  IF to_compress = <<>>
          THEN /\ k_out' = Value(BuildContext(<<>>, <<>>, <<>>))
               /\ UNCHANGED <<k_original_goal, k_constraints, k_salience_set>>
               /\ UNCHANGED kframe
          ELSE \E merged \in {MergeSalience(k_salience_set,
                                            ExtractSalientInformation(reply))} :
                  /\ Len(merged) <= MaxSalience
                  /\ k_salience_set' = merged
                  /\ k_out' = Value(BuildContext(
                        merged,
                        StrategyHBackground(summary, to_compress),
                        Slice(context, MaxInt(0, trigger_point - 3), trigger_point)))
                  /\ UNCHANGED <<k_original_goal, k_constraints>>
                  /\ UNCHANGED kframe

KNext ==
    \/ StrategyHInitialize
    \/ StrategyHUpdateGoal
    \/ StrategyHCompress

(***************************************************************************)
(* _calculate_aggregate_summary.  A dict is a set of <<key, value>> pairs; *)
(* the numbers are exact rationals Fin(n, d).                              *)
(***************************************************************************)
MaxSummaries == 3

\* d.get(key, default)
DictGet(d, key, default) ==
    IF \E p \in d : p[1] = key
    THEN (CHOOSE p \in d : p[1] = key)[2]
    ELSE default

DictKeys(d) == {p[1] : p \in d}

RECURSIVE Gcd(_, _)
Gcd(a, b) == IF b = 0 THEN a ELSE Gcd(b, a % b)

Abs(n) == IF n < 0 THEN -n ELSE n

\* The rational n/d in lowest terms, d > 0
Rat(n, d) ==
    LET g == Gcd(Abs(n), Abs(d))
        s == IF d < 0 THEN -1 ELSE 1
    IN  Fin((s * n) \div g, (s * d) \div g)

RAdd(a, b) == Rat(a.n * b.d + b.n * a.d, a.d * b.d)
RSub(a, b) == Rat(a.n * b.d - b.n * a.d, a.d * b.d)
RMul(a, b) == Rat(a.n * b.n, a.d * b.d)
RDivInt(a, k) == Rat(a.n, a.d * k)

\* sum(values)
RECURSIVE RSum(_)
RSum(values) ==
    IF values = <<>> THEN Fin(0, 1) ELSE RAdd(Head(values), RSum(Tail(values)))

\* The per-trial summaries a trial may end with (MetricsCollector's summary); the
\* last one lacks most keys.
TrialSummaries ==
    { { <<"avg_goal_coherence_before", Fin(1, 1)>>,
        <<"avg_goal_coherence_after", Fin(3, 4)>>,
        <<"avg_goal_drift", Fin(1, 4)>>,
        <<"avg_constraint_recall_before", Fin(1, 1)>>,
        <<"avg_constraint_recall_after", Fin(1, 2)>>,
        <<"avg_constraint_loss", Fin(1, 2)>>,
        <<"avg_behavioral_alignment_after", Fin(4, 1)>>,
        <<"drift_events_detected", Fin(1, 1)>>,
        <<"avg_compression_ratio", Fin(1, 2)>> },
      { <<"avg_goal_coherence_before", Fin(1, 2)>>,
        <<"avg_goal_coherence_after", Fin(1, 1)>>,
        <<"avg_goal_drift", Fin(-1, 2)>>,
        <<"avg_constraint_recall_before", Fin(1, 1)>>,
        <<"avg_constraint_recall_after", Fin(1, 1)>>,
        <<"avg_constraint_loss", Fin(0, 1)>>,
        <<"avg_behavioral_alignment_after", Fin(5, 1)>>,
        <<"drift_events_detected", Fin(0, 1)>>,
        <<"avg_compression_ratio", Fin(1, 4)>> },
      { <<"avg_goal_coherence_before", Fin(1, 1)>>,
        <<"avg_goal_coherence_after", Fin(0, 1)>>,
        <<"avg_goal_drift", Fin(1, 1)>>,
        <<"avg_constraint_recall_before", Fin(1, 1)>>,
        <<"avg_constraint_recall_after", Fin(0, 1)>>,
        <<"avg_constraint_loss", Fin(1, 1)>>,
        <<"avg_behavioral_alignment_after", Fin(1, 1)>>,
        <<"drift_events_detected", Fin(2, 1)>>,
        <<"avg_compression_ratio", Fin(3, 4)>> },
      { <<"avg_goal_coherence_before", Fin(1, 1)>> } }

\* values = [s.get(key, 0) for s in all_summaries]
ValuesOf(all_summaries, key) ==
    [k \in 1..Len(all_summaries) |-> DictGet(all_summaries[k], key, Fin(0, 1))]

\* avg(key)
Avg(all_summaries, key) ==
    LET values == ValuesOf(all_summaries, key)
    IN  IF values # <<>> THEN RDivInt(RSum(values), Len(values)) ELSE Fin(0, 1)

\* sum((v - mean) ** 2 for v in values)
SquaredDeviations(values) ==
    LET mean == RDivInt(RSum(values), Len(values))
    IN  RSum([k \in 1..Len(values) |->
                RMul(RSub(values[k], mean), RSub(values[k], mean))])

\* Mutant: the sample variance, divided by N - 1.
VarianceOfSample(all_summaries, key) ==
    LET values == ValuesOf(all_summaries, key)
    IN  IF Len(values) < 2 THEN Fin(0, 1)
        ELSE RDivInt(SquaredDeviations(values), Len(values) - 1)

\* variance(key)
Variance(all_summaries, key) ==
    LET values == ValuesOf(all_summaries, key)
    IN  IF Len(values) < 2 THEN Fin(0, 1)
        ELSE RDivInt(SquaredDeviations(values), Len(values))

\* _calculate_aggregate_summary(trials), all_summaries being the trials' summaries
CalculateAggregateSummary(all_summaries) ==
    IF all_summaries = <<>> THEN {}
    ELSE { <<"num_trials", Fin(Len(all_summaries), 1)>>,
           <<"avg_goal_coherence_before", Avg(all_summaries, "avg_goal_coherence_before")>>,
           <<"avg_goal_coherence_after", Avg(all_summaries, "avg_goal_coherence_after")>>,
           <<"avg_goal_drift", Avg(all_summaries, "avg_goal_drift")>>,
           <<"goal_drift_variance", Variance(all_summaries, "avg_goal_drift")>>,
           <<"avg_constraint_recall_before", Avg(all_summaries, "avg_constraint_recall_before")>>,
           <<"avg_constraint_recall_after", Avg(all_summaries, "avg_constraint_recall_after")>>,
           <<"avg_constraint_loss", Avg(all_summaries, "avg_constraint_loss")>>,
           <<"avg_behavioral_alignment", Avg(all_summaries, "avg_behavioral_alignment_after")>>,
           <<"total_drift_events", RSum(ValuesOf(all_summaries, "drift_events_detected"))>>,
           <<"avg_compression_ratio", Avg(all_summaries, "avg_compression_ratio")>> }

\* No trial has ended; nothing is aggregated.
AInit ==
    /\ a_summaries = <<>>
    /\ a_aggregate = NoValue

\* A trial ends with a summary.
TrialEnds ==
    /\ a_aggregate = NoValue
    /\ Len(a_summaries) < MaxSummaries
    /\ \E summary \in TrialSummaries : a_summaries' = Append(a_summaries, summary)
    /\ UNCHANGED a_aggregate
    /\ UNCHANGED aframe

\* aggregate_summary = _calculate_aggregate_summary(trials)
Aggregate ==
    /\ a_aggregate = NoValue
    /\ a_aggregate' = Value(CalculateAggregateSummary(a_summaries))
    /\ UNCHANGED a_summaries
    /\ UNCHANGED aframe

ANext ==
    \/ TrialEnds
    \/ Aggregate

(***************************************************************************)
(* sample_json and sample_score (sampling.py).  The text of a JSON reply   *)
(* is a sequence of pieces: a code fence, the tag json, a newline, a       *)
(* brace, a word.                                                          *)
(***************************************************************************)
MaxReplyPieces == 5

\* The code fence: three backquotes
Fence == "<fence>"
JsonPieces == {Fence, "json", "\n", "{", "}", "Here"}

\* What the oracle may answer to sample_json; to sample_score it answers one of
\* ScoreReplies.
JsonReplies == ListsUpTo(JsonPieces, MaxReplyPieces)

\* The only object these pieces can spell: {}
EmptyDict == [dict |-> {}]

\* json.loads(text): white space between the pieces is skipped; the value, or no
\* value when it raises json.JSONDecodeError
JsonLoads(text) ==
    IF SelectSeq(text, LAMBDA c : c # "\n") = <<"{", "}">>
    THEN Value(EmptyDict) ELSE NoValue

\* The positions of piece c in text
PositionsOf(text, c) == {i \in 1..Len(text) : text[i] = c}

Least(S) == CHOOSE i \in S : \A j \in S : i <= j
Greatest(S) == CHOOSE i \in S : \A j \in S : i >= j

\* _extract_json_block(text): group 1 of the first match of
\* <fence>(?:json)?\s*\n?(.*?)\n?<fence> stripped, that is what lies between the first
\* fence (and the tag after it) and the next fence; without two fences the match
\* of \{.*\}, from the first opening brace to the last closing one; else None.
ExtractJsonBlock(text) ==
    LET fences == PositionsOf(text, Fence)
        opening == PositionsOf(text, "{")
        closing == PositionsOf(text, "}")
    IN  IF Cardinality(fences) >= 2
        THEN LET i == Least(fences)
                 j == Least(fences \ {i})
                 from == IF text[i + 1] = "json" THEN i + 2 ELSE i + 1
             IN  Value(Strip(SubSeq(text, from, j - 1)))
        ELSE IF opening # {} /\ \E b \in closing : b > Least(opening)
        THEN Value(SubSeq(text, Least(opening), Greatest(closing)))
        ELSE NoValue

\* Mutant: a reply that cannot be repaired counts as an empty object.
SampleJsonOutcomeDefaultsToEmpty(text) ==
    IF JsonLoads(text).ok THEN Return(JsonLoads(text).val)
    ELSE LET stripped == ExtractJsonBlock(text)
         IN  IF stripped.ok /\ JsonLoads(stripped.val).ok
             THEN Return(JsonLoads(stripped.val).val)
             ELSE Return(EmptyDict)

\* sample_json on the text the oracle returned: json.loads(text); on
\* JSONDecodeError json.loads of the extracted block, whose JSONDecodeError
\* nothing catches; ValueError when there is no block.
SampleJsonOutcome(text) ==
    IF JsonLoads(text).ok THEN Return(JsonLoads(text).val)
    ELSE LET stripped == ExtractJsonBlock(text)
         IN  IF ~stripped.ok THEN Raise("ValueError")
             ELSE IF JsonLoads(stripped.val).ok
             THEN Return(JsonLoads(stripped.val).val)
             ELSE Raise("JSONDecodeError")

\* sample_score on the text the oracle returned
SampleScoreOutcome(text) ==
    IF SampleScore(text).ok THEN Return(SampleScore(text).val)
    ELSE Raise("ValueError")

QInit ==
    /\ q_op = "none"
    /\ q_pc = "idle"
    /\ q_text = NoValue
    /\ q_requests = 0
    /\ q_out = NoOutcome

\* A wrapper is called: sample_text sends the one request and awaits the reply.
SampleCalled(op) ==
    /\ q_pc \in {"idle", "done"}
    /\ q_op' = op
    /\ q_pc' = "awaiting"
    /\ q_text' = NoValue
    /\ q_requests' = 1
    /\ q_out' = NoOutcome
    /\ UNCHANGED qframe

SampleJsonCalled == SampleCalled("sample_json")
SampleScoreCalled == SampleCalled("sample_score")

\* The reply to sample_json's request arrives.
SampleJsonReply ==
    /\ q_pc = "awaiting"
    /\ q_op = "sample_json"
    /\ \E text \in JsonReplies :
          /\ q_text' = Value(text)
          /\ q_out' = SampleJsonOutcome(text)
    /\ q_pc' = "done"
    /\ UNCHANGED <<q_op, q_requests>>
    /\ UNCHANGED qframe

\* The reply to sample_score's request arrives.
SampleScoreReply ==
    /\ q_pc = "awaiting"
    /\ q_op = "sample_score"
    /\ \E text \in ScoreReplies :
          /\ q_text' = Value(text)
          /\ q_out' = SampleScoreOutcome(text)
    /\ q_pc' = "done"
    /\ UNCHANGED <<q_op, q_requests>>
    /\ UNCHANGED qframe

\* session.create_message raises: the exception leaves the wrapper.
SamplingRequestFails ==
    /\ q_pc = "awaiting"
    /\ q_out' = Raise("TransportError")
    /\ q_pc' = "done"
    /\ UNCHANGED <<q_op, q_text, q_requests>>
    /\ UNCHANGED qframe

QNext ==
    \/ SampleJsonCalled
    \/ SampleScoreCalled
    \/ SampleJsonReply
    \/ SampleScoreReply
    \/ SamplingRequestFails

(***************************************************************************)
(* StrategyB_CodexCheckpoint._select_user_messages (strategy_b_codex.py).  *)
(* A text is given by its number of characters, the number of bytes of     *)
(* each character in UTF-8, and whether the truncation marker ends it.     *)
(***************************************************************************)
MaxMessages == 3

COMPACT_USER_MESSAGE_MAX_TOKENS == 20000
APPROX_BYTES_PER_TOKEN == 4

\* len("...[truncated]")
TruncationMarkerLen == 14

Text(chars, width) == [chars |-> chars, width |-> width, marked |-> FALSE]

\* The user messages a conversation may hold: empty, short, just under the budget,
\* just over it; of ASCII characters or of 4-byte characters.
MessagePool ==
    {Text(chars, width) : chars \in {0, 10, 79996, 80004}, width \in {1, 4}}

MessageLists == ListsUpTo(MessagePool, MaxMessages)

\* len(text.encode('utf-8'))
ByteLen(text) ==
    text.chars * text.width + (IF text.marked THEN TruncationMarkerLen ELSE 0)

\* _approx_token_count
ApproxTokenCount(text) ==
    (ByteLen(text) + APPROX_BYTES_PER_TOKEN - 1) \div APPROX_BYTES_PER_TOKEN

\* _truncate_text: text[:max_bytes // 2] counts characters, then the marker
TruncateText(text, max_tokens) ==
    LET max_bytes == max_tokens * APPROX_BYTES_PER_TOKEN
        kept == IF text.chars < max_bytes \div 2 THEN text.chars ELSE max_bytes \div 2
    IN  IF ByteLen(text) <= max_bytes THEN text
        ELSE [text EXCEPT !.chars = kept, !.marked = TRUE]

\* list.reverse
Reverse(seq) == [i \in 1..Len(seq) |-> seq[Len(seq) + 1 - i]]

\* _select_user_messages has not been called.
BInit ==
    /\ b_user_messages = <<>>
    /\ b_pos = 0
    /\ b_selected = <<>>
    /\ b_remaining = COMPACT_USER_MESSAGE_MAX_TOKENS
    /\ b_pc = "done"

\* _select_user_messages(user_messages) is called.
SelectInit ==
    /\ b_user_messages \in MessageLists
    /\ b_pos = 0
    /\ b_selected = <<>>
    /\ b_remaining = COMPACT_USER_MESSAGE_MAX_TOKENS
    /\ b_pc = "loop"

\* The message the loop over reversed(user_messages) takes next
NextMessage == b_user_messages[Len(b_user_messages) - b_pos]

\* One iteration: the message fits the remaining budget and is selected whole.
SelectKeeps ==
    /\ b_pc = "loop"
    /\ b_pos < Len(b_user_messages)
    /\ b_remaining > 0
    /\ ApproxTokenCount(NextMessage) <= b_remaining
    /\ b_selected' = Append(b_selected, NextMessage)
    /\ b_remaining' = b_remaining - ApproxTokenCount(NextMessage)
    /\ b_pos' = b_pos + 1
    /\ UNCHANGED <<b_user_messages, b_pc>>
    /\ UNCHANGED bframe

\* One iteration: the message does not fit; it is truncated, selected, and the
\* loop ends.
SelectTruncates ==
    /\ b_pc = "loop"
    /\ b_pos < Len(b_user_messages)
    /\ b_remaining > 0
    /\ ApproxTokenCount(NextMessage) > b_remaining
    /\ b_selected' = Append(b_selected, TruncateText(NextMessage, b_remaining))
    /\ b_pos' = b_pos + 1
    /\ b_pc' = "reverse"
    /\ UNCHANGED <<b_user_messages, b_remaining>>
    /\ UNCHANGED bframe

\* The loop is over (no message left, no budget left, or a message truncated):
\* selected.reverse(); return selected
SelectReturns ==
    /\ \/ b_pc = "reverse"
       \/ b_pc = "loop" /\ (b_pos = Len(b_user_messages) \/ b_remaining <= 0)
    /\ b_selected' = Reverse(b_selected)
    /\ b_pc' = "done"
    /\ UNCHANGED <<b_user_messages, b_pos, b_remaining>>
    /\ UNCHANGED bframe

BNext ==
    \/ SelectKeeps
    \/ SelectTruncates
    \/ SelectReturns

(***************************************************************************)
(* The command-line entry points scripts/run_eval.py (main, run_evaluation,*)
(* run_comparison, run_rigorous, run_coding_evaluation) and                *)
(* run_codex_cli_eval.py (main).  A process that ends by an uncaught       *)
(* exception prints the traceback and exits with code 1; one whose main    *)
(* returns without sys.exit exits with code 0.                             *)
(***************************************************************************)
\* for strategy in ["amem", "recency", "first_last"]
ComparedStrategies == 3

\* python run_eval.py [--dataset locomo|coding|both] [--compare|--rigorous]
RunEvalArgs ==
    [script : {"run_eval"},
     dataset : {"locomo", "coding", "both"},
     mode : {"single", "compare", "rigorous"}]

\* python run_codex_cli_eval.py [--codex-path PATH]
CodexCliArgs ==
    [script : {"run_codex_cli_eval"}, codex_path : BOOLEAN]

\* What the scripts look for on the machine
RunEvalEnv ==
    [dataset_exists : BOOLEAN, coding_templates_exist : BOOLEAN]
CodexCliEnv ==
    [codex_found : BOOLEAN, wrapper_starts : BOOLEAN, tasks_dir_exists : BOOLEAN,
     tasks_load : BOOLEAN, tasks_found : BOOLEAN]

\* No script runs.
CInit ==
    /\ c_script = "none"
    /\ c_args = [script |-> "none"]
    /\ c_env = [none |-> TRUE]
    /\ c_pc = "exited"
    /\ c_iter = 0
    /\ c_missing = FALSE
    /\ c_reported = FALSE
    /\ c_evaluations = 0
    /\ c_exit = Value(0)

\* A script is started from the command line.
CliInit ==
    /\ \/ c_args \in RunEvalArgs /\ c_env \in RunEvalEnv
       \/ c_args \in CodexCliArgs /\ c_env \in CodexCliEnv
    /\ c_script = c_args.script
    /\ c_pc = "main"
    /\ c_iter = 0
    /\ c_missing = FALSE
    /\ c_reported = FALSE
    /\ c_evaluations = 0
    /\ c_exit = NoValue

\* The process ends with the exit code.
Exits(code) ==
    /\ c_pc' = "exited"
    /\ c_exit' = Value(code)

\* ---- scripts/run_eval.py ----
\* main routes on --dataset: the QA evaluation first, or the coding one.
RunEvalMain ==
    /\ c_script = "run_eval"
    /\ c_pc = "main"
    /\ c_pc' = IF c_args.dataset = "coding" THEN "coding" ELSE "qa"
    /\ UNCHANGED <<c_script, c_args, c_env, c_iter, c_missing, c_reported,
                   c_evaluations, c_exit>>
    /\ UNCHANGED cframe

\* Where main goes after the QA evaluation
AfterQa == IF c_args.dataset = "both" THEN "coding" ELSE "return"

\* run_evaluation called by main, whose result main drops: without the dataset it
\* prints the error and returns None.
RunEvaluation ==
    /\ c_script = "run_eval"
    /\ c_pc = "qa"
    /\ c_args.mode = "single"
    /\ IF c_env.dataset_exists
       THEN /\ c_evaluations' = c_evaluations + 1
            /\ UNCHANGED <<c_missing, c_reported>>
       ELSE /\ c_missing' = TRUE
            /\ c_reported' = TRUE
            /\ UNCHANGED c_evaluations
    /\ c_pc' = AfterQa
    /\ UNCHANGED <<c_script, c_args, c_env, c_iter, c_exit>>
    /\ UNCHANGED cframe

\* One iteration of the loop of run_comparison or run_rigorous:
\* results, filepath = run_evaluation(...). Unpacking None raises TypeError, which
\* nothing catches.
RunEvaluationInLoop ==
    /\ c_script = "run_eval"
    /\ c_pc = "qa"
    /\ c_args.mode \in {"compare", "rigorous"}
    /\ IF c_env.dataset_exists
       THEN /\ c_evaluations' = c_evaluations + 1
            /\ c_iter' = c_iter + 1
            /\ c_pc' = IF c_iter + 1 = ComparedStrategies THEN AfterQa ELSE "qa"
            /\ UNCHANGED <<c_missing, c_reported, c_exit>>
       ELSE /\ c_missing' = TRUE
            /\ c_reported' = TRUE
            /\ Exits(1)
            /\ UNCHANGED <<c_evaluations, c_iter>>
    /\ UNCHANGED <<c_script, c_args, c_env>>
    /\ UNCHANGED cframe

\* run_coding_evaluation called by main: without the templates it prints the
\* error and returns None.
RunCodingEvaluation ==
    /\ c_script = "run_eval"
    /\ c_pc = "coding"
    /\ IF c_env.coding_templates_exist
       THEN /\ c_evaluations' = c_evaluations + 1
            /\ UNCHANGED <<c_missing, c_reported>>
       ELSE /\ c_missing' = TRUE
            /\ c_reported' = TRUE
            /\ UNCHANGED c_evaluations
    /\ c_pc' = "return"
    /\ UNCHANGED <<c_script, c_args, c_env, c_iter, c_exit>>
    /\ UNCHANGED cframe

\* The exit code when main() returns: `main()` is not wrapped in sys.exit.
MainReturnCode == 0

\* main returns and the interpreter ends.
MainReturns ==
    /\ c_script = "run_eval"
    /\ c_pc = "return"
    /\ Exits(MainReturnCode)
    /\ UNCHANGED <<c_script, c_args, c_env, c_iter, c_missing, c_reported,
                   c_evaluations>>
    /\ UNCHANGED cframe

\* ---- run_codex_cli_eval.py ----
\* The process prints an error and ends with sys.exit(main()) = 1.
CodexCliFails ==
    /\ c_missing' = TRUE
    /\ c_reported' = TRUE
    /\ Exits(1)

\* main looks for the Codex binary unless --codex-path names it.
CodexCliFindCodex ==
    /\ c_script = "run_codex_cli_eval"
    /\ c_pc = "main"
    /\ IF c_args.codex_path \/ c_env.codex_found
       THEN /\ c_pc' = "wrapper"
            /\ UNCHANGED <<c_missing, c_reported, c_exit>>
       ELSE CodexCliFails
    /\ UNCHANGED <<c_script, c_args, c_env, c_iter, c_evaluations>>
    /\ UNCHANGED cframe

\* CodexCLIWrapper(codex_path, timeout) inside try/except Exception
CodexCliInitWrapper ==
    /\ c_script = "run_codex_cli_eval"
    /\ c_pc = "wrapper"
    /\ IF c_env.wrapper_starts
       THEN /\ c_pc' = "tasks"
            /\ UNCHANGED <<c_missing, c_reported, c_exit>>
       ELSE CodexCliFails
    /\ UNCHANGED <<c_script, c_args, c_env, c_iter, c_evaluations>>
    /\ UNCHANGED cframe

\* The tasks directory must exist, load, and hold a task.
CodexCliLoadTasks ==
    /\ c_script = "run_codex_cli_eval"
    /\ c_pc = "tasks"
    /\ IF c_env.tasks_dir_exists /\ c_env.tasks_load /\ c_env.tasks_found
       THEN /\ c_pc' = "evaluate"
            /\ UNCHANGED <<c_missing, c_reported, c_exit>>
       ELSE CodexCliFails
    /\ UNCHANGED <<c_script, c_args, c_env, c_iter, c_evaluations>>
    /\ UNCHANGED cframe

\* run_evaluation(codex, tasks), the results, return 0
CodexCliRunEvaluation ==
    /\ c_script = "run_codex_cli_eval"
    /\ c_pc = "evaluate"
    /\ c_evaluations' = c_evaluations + 1
    /\ Exits(0)
    /\ UNCHANGED <<c_script, c_args, c_env, c_iter, c_missing, c_reported>>
    /\ UNCHANGED cframe

CNext ==
    \/ RunEvalMain
    \/ RunEvaluation
    \/ RunEvaluationInLoop
    \/ RunCodingEvaluation
    \/ MainReturns
    \/ CodexCliFindCodex
    \/ CodexCliInitWrapper
    \/ CodexCliLoadTasks
    \/ CodexCliRunEvaluation

(***************************************************************************)
(* Specifications                                                          *)
(***************************************************************************)
\* The harness before run_baseline_evaluation is called with an empty template.
HIdle ==
    /\ template = <<>>
    /\ num_trials = 1
    /\ trial_id = 1
    /\ trials = <<>>
    /\ pc = "done"
    /\ turn_idx = 0
    /\ agent = MockAgentInit(0)
    /\ strategy = NewStrategy(0)
    /\ collector = NewCollector(0)
    /\ counter = 0
    /\ locals = NoLocals
    /\ calls = <<>>
    /\ next_obj = 1

\* No scorer call.
SIdle ==
    /\ s_op = "none"
    /\ s_args = [op |-> "none"]
    /\ s_pc = "done"
    /\ s_idx = 0
    /\ s_recalled = 0
    /\ s_calls = 0
    /\ s_replies = <<>>
    /\ s_out = NoOutcome

\* _deduplicate is not running.
DIdle ==
    /\ d_items = <<>>
    /\ d_threshold = DefaultThreshold
    /\ d_once = NoValue
    /\ d_twice = NoValue

\* The MCP server handles no request.
MIdle ==
    /\ m_session = NoSession
    /\ m_sessions = 0
    /\ m_tasks = [h \in Handlers |-> IdleTask]
    /\ m_started = 0

\* The evaluation harness
Init == HInit /\ SIdle /\ DIdle /\ MIdle /\ KInit /\ AInit /\ QInit /\ BInit /\ CInit
Next == HNext
Spec == Init /\ [][Next]_vars

\* The scorers
ScorerInit == HIdle /\ SInit /\ DIdle /\ MIdle /\ KInit /\ AInit /\ QInit /\ BInit /\ CInit
ScorerNext == SNext
SpecScorer == ScorerInit /\ [][ScorerNext]_vars

\* _deduplicate applied to a list, and again to its result
DedupInit == HIdle /\ SIdle /\ DInit /\ MIdle /\ KInit /\ AInit /\ QInit /\ BInit /\ CInit
DedupNext == DNext
SpecDedup == DedupInit /\ [][DedupNext]_vars

\* The MCP server: tool calls handled concurrently on one session manager
SessionInit == HIdle /\ SIdle /\ DIdle /\ MInit /\ KInit /\ AInit /\ QInit /\ BInit /\ CInit
SessionNext == MNext
SpecSession == SessionInit /\ [][SessionNext]_vars

\* Strategy H: initialize, update_goal and compress in any order
StrategyHInit == HIdle /\ SIdle /\ DIdle /\ MIdle /\ KInit /\ AInit /\ QInit /\ BInit /\ CInit
StrategyHNext == KNext
SpecStrategyH == StrategyHInit /\ [][StrategyHNext]_vars

\* The trials of an evaluation end one by one; then the aggregate is computed
AggregateInit == HIdle /\ SIdle /\ DIdle /\ MIdle /\ KInit /\ AInit /\ QInit /\ BInit /\ CInit
AggregateNext == ANext
SpecAggregate == AggregateInit /\ [][AggregateNext]_vars

\* The sampling wrappers called one after the other
SamplingInit == HIdle /\ SIdle /\ DIdle /\ MIdle /\ KInit /\ AInit /\ QInit /\ BInit /\ CInit
SamplingNext == QNext
SpecSampling == SamplingInit /\ [][SamplingNext]_vars

\* _select_user_messages applied to a list of user messages
SelectMessagesInit == HIdle /\ SIdle /\ DIdle /\ MIdle /\ KInit /\ AInit /\ QInit /\ SelectInit /\ CInit
SelectMessagesNext == BNext
SpecSelectMessages == SelectMessagesInit /\ [][SelectMessagesNext]_vars

\* A script is run from the command line on some machine
EntryPointInit == HIdle /\ SIdle /\ DIdle /\ MIdle /\ KInit /\ AInit /\ QInit /\ BInit /\ CliInit
EntryPointNext == CNext
SpecEntryPoint == EntryPointInit /\ [][EntryPointNext]_vars

(***************************************************************************)
(* Properties of the evaluation harness (checked under Spec)               *)
(***************************************************************************)
\* What a logged call is: the prompt of a probe, or the operation.
KindOf(e) == IF e.op = "call" THEN e.arg ELSE e.op

\* The six calls of a compression point and the collect call that follows them.
PointCalls ==
    <<"goal_probe", "constraint_probe", "compress",
      "goal_probe", "constraint_probe", "behavioral_test", "collect">>

IsPointCall(e) == e.op \in {"call", "compress", "collect"}

\* The turn ids of the flagged turns of ts, in template order.
RECURSIVE FlaggedIdsOf(_)
FlaggedIdsOf(ts) ==
    IF ts = <<>> THEN <<>>
    ELSE (IF Head(ts).is_compression_point THEN <<Head(ts).turn_id>> ELSE <<>>)
         \o FlaggedIdsOf(Tail(ts))

CollectCalls == SelectSeq(calls, LAMBDA e : e.op = "collect")
CompressCalls == SelectSeq(calls, LAMBDA e : e.op = "compress")

\* C1: at every flagged turn the oracle and strategy calls that follow add_turn are,
\* in this order and with nothing between them, goal probe, constraint probe,
\* compress, goal probe, constraint probe, behavioral probe, and only then collect;
\* no probe, compress or collect call happens anywhere else.
C1_ProbeCompressProbeOrder ==
    /\ \A a \in 1..Len(calls) :
          calls[a].op = "add_turn" =>
             IF calls[a].flagged
             THEN \A k \in 1..7 :
                     a + k <= Len(calls) => KindOf(calls[a + k]) = PointCalls[k]
             ELSE a + 1 <= Len(calls) => ~IsPointCall(calls[a + 1])
    /\ \A p \in 1..Len(calls) :
          IsPointCall(calls[p]) =>
             \E a \in 1..(p - 1) :
                /\ calls[a].op = "add_turn"
                /\ calls[a].flagged
                /\ p - a <= 7
                /\ \A q \in (a + 1)..(p - 1) : calls[q].op # "add_turn"
    /\ \A p \in 1..Len(calls) :
          calls[p].op \in {"compress", "collect"} =>
             \E a \in 1..(p - 1) :
                calls[a].op = "add_turn" /\ calls[a].turn_id = calls[p].turn_id
                /\ \A q \in (a + 1)..(p - 1) : calls[q].op # "add_turn"

\* C1 witness: a second compression point has been measured and collected.
C1_Witness ==
    /\ Len(CollectCalls) >= 2
    /\ pc = "turn"

\* C2: when MockAgent.compress has returned, the context is the one synthetic turn
\* holding the returned string and the token counter is len(compressed) // 4.
C2_CompressReplacesContext ==
    pc = "goal_after" =>
        /\ agent.context = << [id |-> 0, role |-> "system",
                               content |-> locals.compressed,
                               is_compression_point |-> FALSE] >>
        /\ agent.total_tokens = Len(locals.compressed) \div 4

\* C2 witness: compress returned the empty string to an agent that held a summary
\* turn and a template turn and counted more than 0 tokens.
C2_Witness ==
    /\ pc = "goal_after"
    /\ counter >= 2
    /\ locals.tokens_before > 0
    /\ locals.compressed = ""

\* C3: the k-th collect call of a trial carries ordinal k and the turn id of the
\* k-th flagged turn; a record exists for every flagged turn already replayed and
\* for no other; a finished trial holds one record per flagged turn.
C3_OneRecordPerFlaggedTurn ==
    LET flagged == FlaggedIdsOf(template)
        replayed == FlaggedIdsOf(SubSeq(template, 1, turn_idx - 1))
    IN  /\ Len(CollectCalls) <= Len(flagged)
        /\ \A k \in 1..Len(CollectCalls) :
              /\ CollectCalls[k].ordinal = k
              /\ CollectCalls[k].turn_id = flagged[k]
        /\ pc = "turn" => Len(CollectCalls) = Len(replayed)
        /\ pc \in {"turn", "goal_before", "constraints_before", "compress",
                   "goal_after", "constraints_after", "behavioral_after", "collect"}
              => /\ Len(collector.records) = Len(CollectCalls)
                 /\ \A k \in 1..Len(collector.records) :
                       /\ collector.records[k].compression_point_id = k
                       /\ collector.records[k].turn_id = flagged[k]
        /\ \A t \in 1..Len(trials) :
              trials[t].compression_points =
                 [k \in 1..Len(flagged) |->
                     [compression_point_id |-> k, turn_id |-> flagged[k]]]

\* C3 witness: a trial over three turns, one of them unflagged, has finished with
\* two records.
C3_Witness ==
    /\ Len(trials) >= 1
    /\ Len(template) = 3
    /\ Len(trials[1].compression_points) = 2

\* C4: no two trials run with the same strategy object or the same collector object,
\* and inside a trial the strategy has served only this trial's compress calls and
\* the collector holds only this trial's records.
C4_FreshStrategyAndCollectorPerTrial ==
    /\ \A i, j \in 1..Len(trials) :
          i # j => /\ trials[i].strategy # trials[j].strategy
                   /\ trials[i].collector # trials[j].collector
    /\ pc \notin {"eval_loop", "done"} =>
          /\ \A i \in 1..Len(trials) :
                /\ trials[i].strategy # strategy.id
                /\ trials[i].collector # collector.id
          /\ agent.strategy = strategy.id
          /\ strategy.compressions = Len(SelectSeq(CompressCalls, LAMBDA e : e.returned))
          /\ Len(collector.records) = Len(CollectCalls)

\* C4 witness: a second trial is running after a first one that compressed and
\* collected.
C4_Witness ==
    /\ trial_id = 2
    /\ pc = "turn"
    /\ turn_idx = 1
    /\ Len(trials) = 1
    /\ Len(trials[1].compression_points) >= 1

(***************************************************************************)
(* Properties of the scorers (checked under SpecScorer)                    *)
(***************************************************************************)
\* The oracle request i of the call failed: it raised, or (for the two scorers that
\* read a number) its reply holds no number.
RequestFailed(i) ==
    \/ ~s_replies[i].ok
    \/ /\ s_op \in {"goal_coherence", "behavioral_alignment"}
       /\ ~SampleScore(s_replies[i].answer).ok

\* The number of judge calls that succeeded with a reply containing "yes".
YesCount ==
    Cardinality({i \in 1..Len(s_replies) :
                    s_replies[i].ok /\ Contains(Lower(s_replies[i].answer), Yes)})

\* C5: a scorer whose oracle call failed returns its fallback (coherence 0.0, the
\* constraint counted as not mentioned, alignment 1) and raises nothing.
C5_ScorersFallBackOnOracleFailure ==
    (s_pc = "done" /\ \E i \in 1..Len(s_replies) : RequestFailed(i)) =>
        /\ s_out.kind = "return"
        /\ s_op = "goal_coherence" => s_out.value = Fin(0, 1)
        /\ s_op = "behavioral_alignment" => s_out.value = 1
        /\ s_op = "constraint_recall" =>
              s_out.value = Fin(YesCount, Len(s_args.constraints))

\* A reply that float() reads as a number (nan is not one).
IsNumericReply(text) ==
    /\ PyFloat(Strip(text)).ok
    /\ PyFloat(Strip(text)).val.k # "nan"

\* C6: for every numeric reply measure_goal_coherence returns a value in [0,1] and
\* measure_behavioral_alignment returns an integer in 1..5.
C6_ScoresAlwaysClamped ==
    (/\ s_pc = "done"
     /\ s_op \in {"goal_coherence", "behavioral_alignment"}
     /\ Len(s_replies) = 1
     /\ s_replies[1].ok
     /\ IsNumericReply(s_replies[1].answer)) =>
        /\ s_out.kind = "return"
        /\ s_op = "goal_coherence" =>
              /\ s_out.value.k = "fin"
              /\ ~FLess(s_out.value, Fin(0, 1))
              /\ ~FLess(Fin(1, 1), s_out.value)
        /\ s_op = "behavioral_alignment" => s_out.value \in 1..5

\* Two texts that differ at most in the case of their letters.
CasePairs == {{"D", "d"}, {"O", "o"}, {"X", "x"}, {"G", "g"}, {"Y", "y"}}
EqualIgnoringCase(a, b) ==
    /\ Len(a) = Len(b)
    /\ \A i \in 1..Len(a) : a[i] = b[i] \/ {a[i], b[i]} \in CasePairs

\* C7 as stated: for all goals G (the empty one included) measure_goal_coherence(G, G)
\* returns 1.0 and asks the oracle nothing.
C7_SameGoalScoresOne ==
    (s_pc = "done" /\ s_op = "goal_coherence"
        /\ s_args.stated_goal = s_args.original_goal) =>
        /\ s_out = Return(Fin(1, 1))
        /\ s_calls = 0

\* C7 amended: for every nonempty goal G, measure_goal_coherence(G, G), and
\* measure_goal_coherence(G, H) for H equal to G up to letter case, returns 1.0 and
\* asks the oracle nothing.
C7_SameNonemptyGoalScoresOne ==
    (s_pc = "done" /\ s_op = "goal_coherence"
        /\ s_args.original_goal # <<>>
        /\ EqualIgnoringCase(s_args.original_goal, s_args.stated_goal)) =>
        /\ s_out = Return(Fin(1, 1))
        /\ s_calls = 0

\* C7 witness: measure_goal_coherence("Do X", "Do X") has returned.
C7_Witness ==
    /\ s_pc = "done"
    /\ s_op = "goal_coherence"
    /\ s_args.original_goal = <<"D", "o", " ", "X">>
    /\ s_args.stated_goal = <<"D", "o", " ", "X">>

\* C8: measure_goal_coherence(G, "") returns 0.0 and asks the oracle nothing, for
\* every G.
C8_EmptyStatedGoalScoresZero ==
    (s_pc = "done" /\ s_op = "goal_coherence" /\ s_args.stated_goal = <<>>) =>
        /\ s_out = Return(Fin(0, 1))
        /\ s_calls = 0

\* C8 witness: measure_goal_coherence("", "") has returned.
C8_Witness ==
    /\ s_pc = "done"
    /\ s_op = "goal_coherence"
    /\ s_args.original_goal = <<>>
    /\ s_args.stated_goal = <<>>

\* C9: measure_constraint_recall returns 1.0 for the empty constraint list, whatever
\* the statement, and asks the oracle nothing.
C9_NoConstraintsRecallOne ==
    (s_pc = "done" /\ s_op = "constraint_recall" /\ s_args.constraints = <<>>) =>
        /\ s_out = Return(Fin(1, 1))
        /\ s_calls = 0

\* C9 witness: measure_constraint_recall([], "") has returned.
C9_Witness ==
    /\ s_pc = "done"
    /\ s_op = "constraint_recall"
    /\ s_args.constraints = <<>>
    /\ s_args.statement = ""

\* C10: measure_constraint_recall returns 0.0 for a nonempty constraint list and the
\* empty statement, and asks the oracle nothing.
C10_EmptyStatementRecallZero ==
    (s_pc = "done" /\ s_op = "constraint_recall"
        /\ s_args.constraints # <<>> /\ s_args.statement = "") =>
        /\ s_out = Return(Fin(0, 1))
        /\ s_calls = 0

\* C10 witness: measure_constraint_recall of two constraints and "" has returned.
C10_Witness ==
    /\ s_pc = "done"
    /\ s_op = "constraint_recall"
    /\ Len(s_args.constraints) = 2
    /\ s_args.statement = ""

\* C11: with a nonempty constraint list and a nonempty statement the scorer issues
\* one judge call per constraint, counts the calls that succeeded with a reply
\* containing "yes" in any letter case, and returns that count over the number of
\* constraints.
C11_OneJudgeCallPerConstraint ==
    (/\ s_op = "constraint_recall"
     /\ s_args.constraints # <<>>
     /\ s_args.statement # "") =>
        /\ s_calls <= Len(s_args.constraints)
        /\ s_pc = "sampling" => /\ s_calls = s_idx
                                /\ Len(s_replies) = s_idx - 1
        /\ s_pc = "done" =>
              /\ s_calls = Len(s_args.constraints)
              /\ Len(s_replies) = Len(s_args.constraints)
              /\ s_out = Return(Fin(YesCount, Len(s_args.constraints)))

\* C11 witness: two constraints judged, one call failed and one answered "Yes.".
C11_Witness ==
    /\ s_op = "constraint_recall"
    /\ s_pc = "done"
    /\ Len(s_args.constraints) = 2
    /\ Len(s_replies) = 2
    /\ ~s_replies[1].ok
    /\ s_replies[2].ok
    /\ s_replies[2].answer = <<"Y", "e", "s", ".">>
    /\ s_out = Return(Fin(1, 2))

(***************************************************************************)
(* Properties of _deduplicate (checked under SpecDedup)                    *)
(***************************************************************************)
\* C12: deduplicating the result of _deduplicate again changes nothing.
C12_DedupIdempotent ==
    d_twice.ok => d_twice.val = d_once.val

\* C12 witness: the first pass removed an item and kept two; the second pass ran.
C12_Witness ==
    /\ d_twice.ok
    /\ Len(d_items) = 3
    /\ Len(d_once.val) = 2
    /\ d_twice.val = d_once.val

\* The strings of a list
StringsOf(items) == {items[k] : k \in 1..Len(items)}

\* C13 as stated: of any two strings of the input with similarity >= threshold and
\* different lengths, the shorter is in the output and the longer is not.
C13_ShorterOfEverySimilarPairSurvives ==
    d_once.ok =>
        \A i, j \in 1..Len(d_items) :
            (/\ i < j
             /\ Similar(d_items[i], d_items[j], d_threshold)
             /\ Len(d_items[i]) # Len(d_items[j])) =>
                LET short == IF Len(d_items[i]) < Len(d_items[j])
                             THEN d_items[i] ELSE d_items[j]
                    long  == IF Len(d_items[i]) < Len(d_items[j])
                             THEN d_items[j] ELSE d_items[i]
                IN  /\ short \in StringsOf(d_once.val)
                    /\ long \notin StringsOf(d_once.val)

\* C13 amended: a string is discarded only if the input holds another string with
\* similarity >= threshold to it that is not longer than it; no two strings of the
\* output have similarity >= threshold; and of a list of two strings of different
\* length with similarity >= threshold exactly the shorter is kept.
C13_DiscardedOnlyForANoLongerDuplicate ==
    d_once.ok =>
        LET removed == ToRemove(d_items, d_threshold)
            out == d_once.val
        IN  /\ out = Kept(d_items, removed, 1)
            /\ \A k \in removed :
                  \E m \in 1..Len(d_items) :
                      /\ m # k
                      /\ Len(d_items[m]) <= Len(d_items[k])
                      /\ IF m < k
                         THEN Similar(d_items[m], d_items[k], d_threshold)
                         ELSE Similar(d_items[k], d_items[m], d_threshold)
            /\ \A i, j \in 1..Len(out) :
                  i < j => ~Similar(out[i], out[j], d_threshold)
            /\ (/\ Len(d_items) = 2
                /\ Similar(d_items[1], d_items[2], d_threshold)
                /\ Len(d_items[1]) # Len(d_items[2])) =>
                    out = << IF Len(d_items[1]) < Len(d_items[2])
                             THEN d_items[1] ELSE d_items[2] >>

\* C13 witness: the longer of two near-duplicates came first and was discarded.
C13_Witness ==
    /\ d_once.ok
    /\ d_threshold = DefaultThreshold
    /\ d_items = << <<"a", "b", "c", "d">>, <<"a", "b", "c">> >>
    /\ d_once.val = << <<"a", "b", "c">> >>

(***************************************************************************)
(* Properties of the salience set (SpecStrategyH, SpecSession)             *)
(***************************************************************************)
\* No two members of a salience set are near-duplicates.
NoTwoSimilar(salience_set) ==
    \A i, j \in 1..Len(salience_set) :
        i < j => ~Similar(salience_set[i], salience_set[j], DefaultThreshold)

\* C14 as stated: after every salience merge the stored salience set holds no two
\* members with similarity >= 0.85, in the MCP adapter and in Strategy H (two
\* identical strings have similarity 1.0).
C14_NoTwoSimilarMembers ==
    /\ HasSession => NoTwoSimilar(m_session.salience_set)
    /\ NoTwoSimilar(k_salience_set)

\* C15 as stated: within a session a step never removes an item from the
\* salience set, and the size of the set never decreases.
C15_SalienceSetOnlyGrows ==
    [][(/\ HasSession
        /\ HasSession'
        /\ m_session'.id = m_session.id) =>
           /\ StringsOf(m_session.salience_set) \subseteq StringsOf(m_session'.salience_set)
           /\ Len(m_session.salience_set) <= Len(m_session'.salience_set)]_vars

(***************************************************************************)
(* Properties of the MCP session (checked under SpecSession)               *)
(***************************************************************************)
\* C16: the original goal and the hard constraints of the session are the values
\* initialize_session was given, whatever update_goal, add_decision and the
\* compressions did since, and measure_drift scores the stated goal against that
\* original goal (and judges the recall of those constraints).
C16_OriginalGoalIsTheAnchor ==
    /\ HasSession =>
          /\ m_session.protected_core.original_goal = m_session.given.goal
          /\ m_session.protected_core.hard_constraints = m_session.given.constraints
    /\ \A h \in Handlers :
          (m_tasks[h].op = "measure_drift" /\ "scored" \in DOMAIN m_tasks[h].loc) =>
              /\ m_tasks[h].loc.scored =
                    <<m_tasks[h].loc.given.goal, m_tasks[h].args.stated_goal>>
              /\ m_tasks[h].loc.constraints = m_tasks[h].loc.given.constraints

\* C16 witness: measure_drift returned its result in a session whose current goal
\* update_goal had changed before.
C16_Witness ==
    \E h \in Handlers :
        /\ HasSession
        /\ m_session.protected_core.current_goal # m_session.protected_core.original_goal
        /\ m_tasks[h].op = "measure_drift"
        /\ m_tasks[h].pc = "done"
        /\ m_tasks[h].out.kind = "return"
        /\ m_tasks[h].state.alias
        /\ m_tasks[h].loc.scored[1] = m_session.given.goal
        /\ m_tasks[h].loc.scored[1] # m_session.protected_core.current_goal

\* C17: every compressed context compress_context returns starts with the rendered
\* Protected Core of the session and holds the original goal, the current goal and
\* every hard constraint verbatim.
C17_CompressedContextStartsWithCore ==
    \A h \in Handlers :
        (/\ m_tasks[h].op = "compress_context"
         /\ m_tasks[h].pc = "done"
         /\ m_tasks[h].out.kind = "return") =>
            /\ HasSession
            /\ LET text == m_tasks[h].out.value.compressed_context
                   core == m_session.protected_core
               IN  /\ m_tasks[h].out.value.core = core
                   /\ StartsWith(text, Render(core))
                   /\ Contains(text, <<"Original Goal: ">> \o core.original_goal \o <<"\n">>)
                   /\ Contains(text, <<"Current Goal: ">> \o core.current_goal \o <<"\n">>)
                   /\ \A k \in 1..Len(core.hard_constraints) :
                         Contains(text, <<"  - ">> \o core.hard_constraints[k])

\* C17 witness: compress_context returned after both oracle requests, in a session
\* with a constraint, a changed goal and salient items.
C17_Witness ==
    \E h \in Handlers :
        /\ m_tasks[h].op = "compress_context"
        /\ m_tasks[h].pc = "done"
        /\ m_tasks[h].out.kind = "return"
        /\ m_tasks[h].out.value.stats.sampling_calls = 2
        /\ m_session.salience_set # <<>>
        /\ m_session.protected_core.hard_constraints # <<>>
        /\ m_session.protected_core.current_goal # m_session.protected_core.original_goal

\* The handlers that wait for the reply to a sampling request
AwaitingOracle ==
    {h \in Handlers :
        m_tasks[h].pc \in {"extract_salience", "compress_background", "goal_coherence",
                           "constraint_recall", "behavioral_alignment"}}

\* C20 as stated: at any moment at most one sampling request is in flight.
C20_AtMostOneRequestInFlight ==
    Cardinality(AwaitingOracle) <= 1

(***************************************************************************)
(* Properties of the aggregate summary (checked under SpecAggregate)       *)
(***************************************************************************)
\* C18: goal_drift_variance is the population variance of the per-trial
\* avg_goal_drift values v (0 for a summary without the key):
\* N * N * variance = N * sum(v * v) - sum(v) * sum(v).
C18_GoalDriftVarianceIsPopulationVariance ==
    (a_aggregate.ok /\ a_summaries # <<>>) =>
        LET N == Len(a_summaries)
            v == [k \in 1..N |-> DictGet(a_summaries[k], "avg_goal_drift", Fin(0, 1))]
            squares == [k \in 1..N |-> RMul(v[k], v[k])]
            variance == DictGet(a_aggregate.val, "goal_drift_variance", NaN)
        IN  /\ "goal_drift_variance" \in DictKeys(a_aggregate.val)
            /\ RMul(Fin(N * N, 1), variance)
                  = RSub(RMul(Fin(N, 1), RSum(squares)), RMul(RSum(v), RSum(v)))

\* C18 witness: three trials with different goal drifts were aggregated.
C18_Witness ==
    /\ a_aggregate.ok
    /\ Len(a_summaries) = 3
    /\ DictGet(a_aggregate.val, "goal_drift_variance", Fin(0, 1)) # Fin(0, 1)

\* The per-trial summary metrics, each with the key of its mean in the aggregate
\* and the key its variance would have (named as goal_drift_variance is).
SummaryMetrics ==
    { [mean |-> "avg_goal_coherence_before", variance |-> "goal_coherence_before_variance"],
      [mean |-> "avg_goal_coherence_after", variance |-> "goal_coherence_after_variance"],
      [mean |-> "avg_goal_drift", variance |-> "goal_drift_variance"],
      [mean |-> "avg_constraint_recall_before", variance |-> "constraint_recall_before_variance"],
      [mean |-> "avg_constraint_recall_after", variance |-> "constraint_recall_after_variance"],
      [mean |-> "avg_constraint_loss", variance |-> "constraint_loss_variance"],
      [mean |-> "avg_behavioral_alignment", variance |-> "behavioral_alignment_variance"],
      [mean |-> "avg_compression_ratio", variance |-> "compression_ratio_variance"] }

\* C19 as stated: the aggregate holds the mean and the variance of every per-trial
\* summary metric.
C19_MeanAndVarianceOfEveryMetric ==
    (a_aggregate.ok /\ a_summaries # <<>>) =>
        \A metric \in SummaryMetrics :
            /\ metric.mean \in DictKeys(a_aggregate.val)
            /\ metric.variance \in DictKeys(a_aggregate.val)

(***************************************************************************)
(* Tool calls without a session (checked under SpecSession)                *)
(***************************************************************************)
\* C23: compress_context and measure_drift called while the session manager has
\* no session (before initialize_session or after reset) end at once with the
\* "No active session" ValueError, have sent no sampling request, and leave the
\* session manager without a session.
C23_NoSessionNoCall ==
    [][\A h \in Handlers :
          (/\ m_session = NoSession
           /\ m_tasks[h].pc = "idle"
           /\ m_tasks'[h].op \in {"compress_context", "measure_drift"}) =>
              /\ m_tasks'[h].pc = "done"
              /\ m_tasks'[h].out = Raise("ValueError")
              /\ m_tasks'[h].calls = 0
              /\ m_session' = NoSession]_vars

\* C23 witness: after a session was created and reset, measure_drift was called
\* and ended with the error.
C23_Witness ==
    \E h \in Handlers :
        /\ m_sessions >= 1
        /\ m_session = NoSession
        /\ m_tasks[h].op = "measure_drift"
        /\ m_tasks[h].pc = "done"
        /\ m_tasks[h].out = Raise("ValueError")
        /\ m_tasks[h].calls = 0

(***************************************************************************)
(* A session created during a compression (checked under SpecSession)      *)
(***************************************************************************)
\* The compress_context calls that wait for a sampling reply and whose session
\* object the manager has replaced since the request was sent
SuspendedAcrossSessions ==
    {h \in Handlers :
        /\ m_tasks[h].op = "compress_context"
        /\ m_tasks[h].pc \in {"extract_salience", "compress_background"}
        /\ ~m_tasks[h].state.alias
        /\ HasSession}

\* C28 as stated: when a compress_context call resumes after initialize_session
\* created a new session during its sampling request, the step leaves the new
\* session as it was: no item of the previous session's salience set enters its
\* salience set, and compression_count and total_tokens_saved keep their values.
C28_NewSessionUntouchedByCallInFlight ==
    [][\A h \in SuspendedAcrossSessions :
          m_tasks'[h].pc # m_tasks[h].pc =>
              /\ HasSession'
              /\ (StringsOf(m_session'.salience_set)
                     \cap StringsOf(m_tasks[h].state.object.salience_set))
                    \subseteq StringsOf(m_session.salience_set)
              /\ m_session'.compression_count = m_session.compression_count
              /\ m_session'.total_tokens_saved = m_session.total_tokens_saved]_vars

(***************************************************************************)
(* The reported number of sampling calls (checked under SpecSession)       *)
(***************************************************************************)
\* C30 as stated: the sampling_calls number in the result of measure_drift and of
\* compress_context is the number of sampling requests the tool call has sent.
C30_ReportedSamplingCallsAreTheRequestsSent ==
    \A h \in Handlers :
        (m_tasks[h].pc = "done" /\ m_tasks[h].out.kind = "return") =>
            /\ m_tasks[h].op = "compress_context" =>
                  m_tasks[h].out.value.stats.sampling_calls = m_tasks[h].calls
            /\ m_tasks[h].op = "measure_drift" =>
                  m_tasks[h].out.value.sampling_calls = m_tasks[h].calls

(***************************************************************************)
(* What _deduplicate drops (checked under SpecDedup)                       *)
(***************************************************************************)
\* C27 as stated: every string _deduplicate drops from its input has similarity
\* >= threshold with some string of the output.
C27_DroppedResemblesAKeptString ==
    d_once.ok =>
        \A k \in ToRemove(d_items, d_threshold) :
            \E s \in StringsOf(d_once.val) : Similar(d_items[k], s, d_threshold)

(***************************************************************************)
(* Probes and the agent's context (checked under Spec)                     *)
(***************************************************************************)
\* The index of the last flagged turn before turn i of the template, 0 if none
RECURSIVE LastFlaggedBefore(_)
LastFlaggedBefore(i) ==
    IF i <= 1 THEN 0
    ELSE IF Turns[i - 1].is_compression_point THEN i - 1
    ELSE LastFlaggedBefore(i - 1)

\* The context add_turn has built when turn turn_idx was added: the turns added
\* since the last compression, after the summary turn of that compression.
IsUncompressedContext(context) ==
    LET last == LastFlaggedBefore(turn_idx)
        lead == IF last > 0 THEN 1 ELSE 0
    IN  /\ Len(context) = lead + (turn_idx - last)
        /\ lead = 1 => (context[1].id = 0 /\ context[1].role = "system")
        /\ \A k \in (last + 1)..turn_idx :
              context[lead + (k - last)] = AgentTurn(Turns[k])

\* C26: no probe changes the agent's context or its token counter, whether the
\* oracle answered or the call returned an error text: up to compress the agent
\* holds the uncompressed context add_turn built and the token count taken before
\* the probes, and from compress to collect it holds the single summary turn and
\* the token count taken right after compress.
C26_ProbesLeaveTheAgentAlone ==
    /\ pc \in {"goal_before", "constraints_before", "compress"} =>
          /\ IsUncompressedContext(agent.context)
          /\ agent.total_tokens = locals.tokens_before
    /\ pc \in {"goal_after", "constraints_after", "behavioral_after", "collect"} =>
          /\ agent.context = <<SummaryTurn(locals.compressed)>>
          /\ agent.total_tokens = locals.tokens_after

\* C26 witness: at the second compression point of a trial all five probes have
\* returned, one of them with an error text.
C26_Witness ==
    /\ pc = "collect"
    /\ counter = 2
    /\ locals.goal_before = "(error: timeout)"
    /\ locals.behavioral_after # "(error: timeout)"
    /\ agent.context = <<SummaryTurn(locals.compressed)>>

(***************************************************************************)
(* What the strategy is given to compress (checked under Spec)             *)
(***************************************************************************)
\* to_compress = context[:trigger_point] of StrategyB_CodexCheckpoint.compress and
\* SelectiveSalienceStrategy.compress
ToCompress(context, trigger_point) == Slice(context, 0, trigger_point)

\* C29 as stated: in every step in which agent.compress(turn_id) runs, the slice
\* context[:turn_id] the strategy takes is the whole context of the agent, the
\* flagged turn and the summary turn of an earlier compression included.
C29_StrategyCompressesTheWholeContext ==
    [][(pc = "compress" /\ pc' # pc) =>
          ToCompress(agent.context, CurTurn.turn_id) = agent.context]_vars

(***************************************************************************)
(* The sampling wrappers (checked under SpecSampling)                      *)
(***************************************************************************)
\* The exception classes that are ValueError: json.JSONDecodeError derives from it.
ValueErrors == {"ValueError", "JSONDecodeError"}

\* C24: sample_score and sample_json send exactly one sampling request per call.
\* When the reply is not a number, sample_score returns the first number found in
\* the text; when it is not JSON, sample_json returns the JSON taken from a
\* markdown fence or, without a fence, from the outermost braces; when that repair
\* fails the call raises ValueError (or its subclass) to its caller.
C24_OneRequestOneRepair ==
    /\ q_pc \in {"awaiting", "done"} => q_requests = 1
    /\ (q_pc = "done" /\ q_text.ok /\ q_op = "sample_score") =>
          LET text == Strip(q_text.val)
          IN  IF PyFloat(text).ok THEN q_out = Return(PyFloat(text).val)
              ELSE IF FirstIndex(text, Digits) # 0
              THEN q_out = Return(FirstNumber(text).val)
              ELSE q_out.kind = "raise" /\ q_out.exc \in ValueErrors
    /\ (q_pc = "done" /\ q_text.ok /\ q_op = "sample_json") =>
          LET text == q_text.val
              block == ExtractJsonBlock(text)
          IN  IF JsonLoads(text).ok THEN q_out = Return(JsonLoads(text).val)
              ELSE IF block.ok /\ JsonLoads(block.val).ok
              THEN q_out = Return(JsonLoads(block.val).val)
              ELSE q_out.kind = "raise" /\ q_out.exc \in ValueErrors

\* C24 witness: sample_json got a fenced block that is not JSON, and raised after
\* its one request.
C24_Witness ==
    /\ q_op = "sample_json"
    /\ q_pc = "done"
    /\ q_text.ok
    /\ Fence \in StringsOf(q_text.val)
    /\ ExtractJsonBlock(q_text.val).ok
    /\ q_out = Raise("JSONDecodeError")
    /\ q_requests = 1

(***************************************************************************)
(* The user messages kept by Strategy B (checked under SpecSelectMessages) *)
(***************************************************************************)
\* sum of _approx_token_count over the messages
RECURSIVE TotalTokens(_)
TotalTokens(messages) ==
    IF messages = <<>> THEN 0
    ELSE ApproxTokenCount(Head(messages)) + TotalTokens(Tail(messages))

\* C25 as stated: the messages _select_user_messages returns are the last
\* messages of its input in their order, the first of them possibly truncated, and
\* the sum of their approximate token counts, the truncated message with its
\* marker included, is at most COMPACT_USER_MESSAGE_MAX_TOKENS.
C25_KeptMessagesWithinBudget ==
    (b_pc = "done" /\ b_user_messages # <<>>) =>
        LET n == Len(b_user_messages)
            k == Len(b_selected)
        IN  /\ k <= n
            /\ \A i \in 2..k : b_selected[i] = b_user_messages[n - k + i]
            /\ k >= 1 =>
                  \/ b_selected[1] = b_user_messages[n - k + 1]
                  \/ /\ b_selected[1].marked
                     /\ b_selected[1].width = b_user_messages[n - k + 1].width
                     /\ b_selected[1].chars <= b_user_messages[n - k + 1].chars
            /\ TotalTokens(b_selected) <= COMPACT_USER_MESSAGE_MAX_TOKENS

(***************************************************************************)
(* Missing prerequisites (checked under SpecEntryPoint)                    *)
(***************************************************************************)
\* C21 as stated: an entry point that found a prerequisite missing has reported
\* it, ends with a non-zero exit code, and has run no evaluation.
C21_MissingPrerequisiteIsFatal ==
    (c_pc = "exited" /\ c_missing) =>
        /\ c_reported
        /\ c_exit.val # 0
        /\ c_evaluations = 0

(***************************************************************************)
(* An exception during a sweep of trials (checked under Spec)              *)
(***************************************************************************)
\* C22 as stated, for the sweep over the trials of run_baseline_evaluation: an
\* exception raised while a trial is evaluated does not end the sweep; when the
\* harness has stopped, its loop has gone through all num_trials trials.
C22_SweepGoesOnAfterAFailedTrial ==
    pc \in {"done", "raised"} => trial_id > num_trials

====
